---- MODULE Spec2Model ----
(***************************************************************************)
(* Model of two subsystems of BeamerPresenter:                             *)
(*   - PathContainer (src/src/drawing/pathcontainer.cpp): the live list of *)
(*     drawn items of one slide and its undo/redo history;                 *)
(*   - PixCache (src/src/rendering/pixcache.cpp): the cache of rendered    *)
(*     pages with its scheduling passes and render threads.                *)
(* Each subsystem has its own specification (SpecPath, SpecCache).         *)
(***************************************************************************)
EXTENDS Integers, Sequences, FiniteSets, TLC

(***************************************************************************)
(* Bounds of the model.                                                    *)
(***************************************************************************)
\* number of distinct graphics items that are ever allocated in one run
MaxItems == 3
\* largest number of items a container holds when it is constructed
\* (loaded from a file or produced by copy())
MaxInit == 1
\* largest configured preferences()->history_length_visible_slides
MaxDepth == 2
\* largest number of fragments one splitErase call returns
MaxFrag == 2
\* largest length of the live sequence (replaying a step twice can lengthen
\* it without allocating an item)
MaxLen == 4
\* largest number of calls per run that break the calling contract of the
\* container (applyMicroStep with no micro step open, removeItem while one is
\* open)
MaxMisuse == 1
\* number of pages of the document (pdfDoc->numberOfPages())
NumPages == 3
\* largest number of render threads of a cache
MaxThreads == 2
\* largest size of one compressed page, in the unit of maxMemory
MaxSize == 2
\* number of distinct view sizes, each giving one rendering resolution
MaxFrame == 2
\* largest memory budget and largest slot budget that are configured
MaxMemoryBudget == 2
MaxNumberBudget == 2
\* largest number of calls made to the cache from outside in one run
MaxCalls == 2
\* largest number of zero timers pending at once
MaxTimers == 2
\* largest number of setNextPage signals and of sendData signals queued for
\* one thread
MaxQueued == 1
\* how far above the last page region.second is followed
MaxBeyond == 2
\* largest number of page changes of the view in one run of SpecView
MaxViews == 3
\* number of pages of the longer document of SpecLong
LongPages == 4

(***************************************************************************)
(* PathContainer: state.                                                   *)
(*   paths      QList<QGraphicsItem*>: sequence of entries; an entry is an *)
(*              item, NULL (erased in the open micro step) or a temporary   *)
(*              QGraphicsItemGroup holding the fragments of a split path.   *)
(*   history    QList<DrawHistoryStep*>: steps with the two QMap<int,item>  *)
(*              createdItems and deletedItems (functions from 0-based       *)
(*              indices to item ids).                                       *)
(*   inHistory  the cursor: >= 0 number of undone steps, -1 micro step      *)
(*              open, -2 detached copy.                                     *)
(*   nextId     the next fresh item identity (stands for operator new).     *)
(*   depth      preferences()->history_length_visible_slides.               *)
(*   op, ret, arg  the last operation called, what it returned and the      *)
(*              item it was called with (observers, not program state).     *)
(*   was        observer: the cursor and the log length before the last      *)
(*              operation.                                                  *)
(*   run        observer of undo/redo runs: live sequence and cursor at the *)
(*              start of the run and the number of undos and redos since.   *)
(*   micro      observer: the log length before, and the live sequence and  *)
(*              log after, the truncation of the startMicroStep that opened *)
(*              the current micro step.                                     *)
(*   snap       observer: the visible items before the last clearPaths and  *)
(*              whether an undo followed it directly.                       *)
(*   misuse     observer: the number of calls so far that broke the calling *)
(*              contract.                                                   *)
(***************************************************************************)
VARIABLES paths, history, inHistory, nextId, depth, op, ret, arg, was, run, micro, snap,
          misuse

pathVars == <<paths, history, inHistory, nextId, depth, op, ret, arg, was, run, micro,
              snap, misuse>>

(***************************************************************************)
(* PixCache: state.                                                        *)
(*   cache       QMap<int, const PngPixmap*>: function from the cached      *)
(*               pages to [res, size], resolution and bytes of the image.   *)
(*   priority    QList<int>: pages to render next.                          *)
(*   region      QPair<int,int>: [first, second].                           *)
(*   usedMemory  sum of the sizes the cache accounts for.                   *)
(*   maxMemory, maxNumber  the two budgets, negative for unlimited.         *)
(*   frame       the view size, as the resolution it gives (0: not set).    *)
(*   prefPage    preferences()->page.                                       *)
(*   numPages    pdfDoc->numberOfPages().                                   *)
(*   threads     QVector<PixCacheThread*>: per thread [st, page, res], st   *)
(*               "idle", "running" (isRunning() and rendering) or "exiting" *)
(*               (isRunning() still true, sendData already emitted).        *)
(*   signals     per thread the queued setPixCacheThreadPage signals.       *)
(*   results     per thread the queued sendData signals [page, res, size],  *)
(*               size 0 standing for a null image.                          *)
(*   timers      number of pending timers started with startTimer(0).       *)
(*   cop         the last operation of the cache itself (observer).         *)
(*   calls       number of calls made from outside so far (observer).       *)
(*   waitingForPage  SlideView::waitingForPage: the page the view has       *)
(*               requested and not yet got, INT_MAX for none.               *)
(***************************************************************************)
VARIABLES cache, priority, region, usedMemory, maxMemory, maxNumber, frame, prefPage,
          numPages,
          threads, signals, results, timers, cop, calls, waitingForPage

cacheVars == <<cache, priority, region, usedMemory, maxMemory, maxNumber, numPages, frame,
               prefPage, threads, signals, results, timers, cop, calls,
               waitingForPage>>

vars == <<pathVars, cacheVars>>

\* INT_MAX, the initial region.first
IntMax == 2147483647

\* INT_MAX >> 1, returned by limitCacheSize for "no limit"
IntMaxHalf == 1073741823

EmptyCache == [p \in {} |-> [res |-> 0, size |-> 0]]

\* a PixCache as constructed, with no thread, that nothing is called on
CacheQuiet ==
  /\ cache = EmptyCache
  /\ priority = <<>>
  /\ region = [first |-> IntMax, second |-> -1]
  /\ usedMemory = 0
  /\ maxMemory = -1
  /\ maxNumber = -1
  /\ frame = 0
  /\ numPages = NumPages
  /\ prefPage = 0
  /\ threads = <<>>
  /\ signals = <<>>
  /\ results = <<>>
  /\ timers = 0
  /\ cop = "init"
  /\ calls = 0
  /\ waitingForPage = IntMax

NullE == [t |-> "null", id |-> 0, ch |-> <<>>]

ItemE(i) == [t |-> "item", id |-> i, ch |-> <<>>]

GroupE(children) == [t |-> "group", id |-> 0, ch |-> children]

EmptyMap == [k \in {} |-> 0]

EmptyStep == [createdItems |-> EmptyMap, deletedItems |-> EmptyMap]

MapPut(m, k, v) == [x \in (DOMAIN m) \cup {k} |-> IF x = k THEN v ELSE m[x]]

MaxOf(S) == CHOOSE x \in S : \A y \in S : y <= x

MinOf(S) == CHOOSE x \in S : \A y \in S : x <= y

\* the container as one value, with the value its last operation returned
Res(p, h, c, r) == [paths |-> p, history |-> h, inHistory |-> c, ret |-> r]

Here == Res(paths, history, inHistory, ret)

\* QList::removeAt(i), 0-based; Qt 5 ignores an index out of range
RemoveAt(s, i) ==
  IF i < 0 \/ i >= Len(s) THEN s
  ELSE SubSeq(s, 1, i) \o SubSeq(s, i + 2, Len(s))

\* QList::insert(i, x), 0-based; Qt 5 prepends for i <= 0 and appends for
\* i >= size()
InsertAt(s, i, x) ==
  IF i <= 0 THEN <<x>> \o s
  ELSE IF i >= Len(s) THEN Append(s, x)
  ELSE SubSeq(s, 1, i) \o <<x>> \o SubSeq(s, i + 1, Len(s))

\* QList::value(i): the entry at i, a default constructed (null) pointer
\* when i is out of range
ValueAt(s, i) == IF i < 0 \/ i >= Len(s) THEN NullE ELSE s[i + 1]

\* QList::indexOf(item): first 0-based position of the item, -1 if absent
IndexOf(s, i) ==
  IF \E k \in 1..Len(s) : s[k] = ItemE(i)
  THEN MinOf({k \in 1..Len(s) : s[k] = ItemE(i)}) - 1
  ELSE -1

\* the loop "for (it = constEnd(); it != constBegin();) removeAt((--it).key())"
RECURSIVE RemoveKeysDesc(_, _)
RemoveKeysDesc(s, keys) ==
  IF keys = {} THEN s
  ELSE LET k == MaxOf(keys) IN RemoveKeysDesc(RemoveAt(s, k), keys \ {k})

\* the loop "for (it = constBegin(); it != constEnd(); ++it) insert(key, *it)"
RECURSIVE InsertMapAsc(_, _, _)
InsertMapAsc(s, m, keys) ==
  IF keys = {} THEN s
  ELSE LET k == MinOf(keys) IN InsertMapAsc(InsertAt(s, k, ItemE(m[k])), m, keys \ {k})

(***************************************************************************)
(* PathContainer: the operations as functions of the container.            *)
(***************************************************************************)

\* the step undo and redo replay: history[history.length() - k], k counted
\* from the end of the log
StepAt(c, k) == c.history[Len(c.history) - k + 1]

\* PathContainer::undo, the replay of step: created items removed from the
\* highest index down, deleted items inserted from the lowest index up
UndoStep(c, step) ==
  [c EXCEPT !.paths = InsertMapAsc(RemoveKeysDesc(@, DOMAIN step.createdItems),
                                   step.deletedItems, DOMAIN step.deletedItems),
            !.inHistory = @ + 1,
            !.ret = "true"]

\* undo that attaches a detached container when it has nothing to replay
UndoAttaching(c) ==
  IF c.inHistory < 0 \/ Len(c.history) - c.inHistory < 1
  THEN [c EXCEPT !.ret = "false", !.inHistory = IF @ = -2 THEN 0 ELSE @]
  ELSE UndoStep(c, StepAt(c, c.inHistory + 1))

\* PathContainer::undo
Undo(c) ==
  IF c.inHistory < 0 \/ Len(c.history) - c.inHistory < 1
  THEN [c EXCEPT !.ret = "false"]
  ELSE UndoStep(c, StepAt(c, c.inHistory + 1))

\* PathContainer::redo, the replay of step
RedoStep(c, step) ==
  [c EXCEPT !.paths = InsertMapAsc(RemoveKeysDesc(@, DOMAIN step.deletedItems),
                                   step.createdItems, DOMAIN step.createdItems),
            !.inHistory = @ - 1,
            !.ret = "true"]

\* PathContainer::redo
Redo(c) ==
  IF c.inHistory < 1
  THEN [c EXCEPT !.ret = "false"]
  ELSE RedoStep(c, StepAt(c, c.inHistory))

\* clearHistory(n) taking the steps from the end of the log
DropNewest(c, n) ==
  LET m == IF n < 0 THEN 0 ELSE n
      drop == Len(c.history) - c.inHistory - m
  IN IF drop > 0
     THEN [c EXCEPT !.history = SubSeq(@, 1, Len(@) - drop)]
     ELSE c

\* the loop of clearHistory(n): steps are taken from the front of the log
\* until history.length() - inHistory <= n
DropOldest(c, n) ==
  LET m == IF n < 0 THEN 0 ELSE n
      drop == Len(c.history) - c.inHistory - m
  IN IF drop > 0
     THEN [c EXCEPT !.history = SubSeq(@, drop + 1, Len(@))]
     ELSE c

\* step 1 of applyMicroStep giving every fragment the index of its path plus
\* its place in the group, without the shift
RECURSIVE FixStepUnshifted(_, _, _, _)
FixStepUnshifted(p, keys, shift, created) ==
  IF keys = {} THEN created
  ELSE LET k == MinOf(keys)
           item == ValueAt(p, k)
           n == IF item.t = "group" THEN Len(item.ch) ELSE 0
           new == {k + j : j \in 0..(n - 1)}
           cr == [x \in (DOMAIN created) \cup new |->
                    IF x \in new THEN item.ch[x - k + 1] ELSE created[x]]
       IN FixStepUnshifted(p, keys \ {k}, shift + n - 1, cr)

\* step 1 of applyMicroStep: the fragments of every group found at a deleted
\* index become created items, at the index shifted by
\* #(new items) - #(deleted items) before it
RECURSIVE FixStep(_, _, _, _)
FixStep(p, keys, shift, created) ==
  IF keys = {} THEN created
  ELSE LET k == MinOf(keys)
           item == ValueAt(p, k)
           n == IF item.t = "group" THEN Len(item.ch) ELSE 0
           new == {k + shift + j : j \in 0..(n - 1)}
           cr == [x \in (DOMAIN created) \cup new |->
                    IF x \in new THEN item.ch[x - k - shift + 1] ELSE created[x]]
       IN FixStep(p, keys \ {k}, shift + n - 1, cr)

\* the end of applyMicroStep: "if (history.length() > history_length_visible_slides)
\* clearHistory(...)", called with inHistory == 0 just assigned, so that
\* clearHistory goes straight to its loop
LimitAfterApply(c) ==
  IF Len(c.history) > depth THEN DropOldest(c, depth) ELSE c

\* steps 2 and 3 of applyMicroStep that do not write the created items of
\* step 1 to the step
FinalizeUnrecorded(c, created) ==
  LimitAfterApply(
    [c EXCEPT !.paths = InsertMapAsc(
                          RemoveKeysDesc(@, DOMAIN c.history[Len(c.history)].deletedItems),
                          created, DOMAIN created),
              !.inHistory = 0,
              !.ret = "true"])

\* steps 2 and 3 of applyMicroStep with the created items of step 1: the
\* deleted slots removed from the highest index down, the created items
\* inserted from the lowest index up
Finalize(c, created) ==
  LimitAfterApply(
    [c EXCEPT !.paths = InsertMapAsc(
                          RemoveKeysDesc(@, DOMAIN c.history[Len(c.history)].deletedItems),
                          created, DOMAIN created),
              !.history[Len(c.history)].createdItems = created,
              !.inHistory = 0,
              !.ret = "true"])

\* applyMicroStep that keeps the step of a micro step that erased nothing
ApplyKeepingEmptyStep(c) ==
  IF c.inHistory # -1
  THEN [c EXCEPT !.inHistory = 0, !.ret = "true"]
  ELSE IF DOMAIN c.history[Len(c.history)].deletedItems = {}
  THEN [c EXCEPT !.inHistory = 0, !.ret = "false"]
  ELSE Finalize(c, FixStep(c.paths, DOMAIN c.history[Len(c.history)].deletedItems, 0,
                           c.history[Len(c.history)].createdItems))

\* PathContainer::applyMicroStep
ApplyMicroStep(c) ==
  IF c.inHistory # -1
  THEN [c EXCEPT !.inHistory = 0, !.ret = "true"]
  ELSE IF DOMAIN c.history[Len(c.history)].deletedItems = {}
  THEN [c EXCEPT !.history = SubSeq(@, 1, Len(@) - 1), !.inHistory = 0, !.ret = "false"]
  ELSE Finalize(c, FixStep(c.paths, DOMAIN c.history[Len(c.history)].deletedItems, 0,
                           c.history[Len(c.history)].createdItems))

\* PathContainer::clearHistory(n)
ClearHistory(c, n) ==
  IF c.inHistory = -2 THEN c
  ELSE IF c.inHistory = -1 THEN DropOldest(ApplyMicroStep(c), n)
  ELSE DropOldest(c, n)

\* the end of append, removeItem and clearPaths:
\* if (history.length() > history_length_visible_slides) clearHistory(...)
LimitHistory(c) ==
  IF Len(c.history) > depth THEN ClearHistory(c, depth) ELSE c

\* truncateHistory that resets the cursor and keeps the undone steps
TruncateKeepingUndone(c) ==
  IF c.inHistory = -1 THEN ApplyMicroStep(c)
  ELSE [c EXCEPT !.inHistory = 0]

\* PathContainer::truncateHistory
TruncateHistory(c) ==
  IF c.inHistory = -1 THEN ApplyMicroStep(c)
  ELSE IF c.inHistory = -2 THEN [c EXCEPT !.inHistory = 0]
  ELSE [c EXCEPT !.history = SubSeq(@, 1, Len(@) - c.inHistory), !.inHistory = 0]

\* clearPaths that records the items from the last to the first
ClearAllReversed(t) ==
  LimitHistory(
    [t EXCEPT !.history = Append(@, [createdItems |-> EmptyMap,
                                     deletedItems |-> [i \in 0..(Len(t.paths) - 1) |->
                                                         t.paths[Len(t.paths) - i].id]]),
              !.paths = <<>>,
              !.ret = "void"])

\* PathContainer::clearPaths after its call of truncateHistory
ClearAll(t) ==
  LimitHistory(
    [t EXCEPT !.history = Append(@, [createdItems |-> EmptyMap,
                                     deletedItems |-> [i \in 0..(Len(t.paths) - 1) |->
                                                         t.paths[i + 1].id]]),
              !.paths = <<>>,
              !.ret = "void"])

\* PathContainer::clearPaths
ClearPaths(c) == ClearAll(TruncateHistory(c))

\* PathContainer::append after its call of truncateHistory
AppendTo(t, item) ==
  LimitHistory(
    [t EXCEPT !.history = Append(@, [createdItems |-> MapPut(EmptyMap, Len(t.paths), item),
                                     deletedItems |-> EmptyMap]),
              !.paths = Append(@, ItemE(item)),
              !.ret = "void"])

\* PathContainer::append(item)
AppendItem(c, item) == AppendTo(TruncateHistory(c), item)

\* PathContainer::removeItem after its call of truncateHistory; index is the
\* position found before that call
RemoveAtIndex(t, index, item) ==
  LimitHistory(
    [t EXCEPT !.paths = RemoveAt(@, index),
              !.history = Append(@, [createdItems |-> EmptyMap,
                                     deletedItems |-> MapPut(EmptyMap, index, item)]),
              !.ret = "void"])

\* PathContainer::removeItem(item)
RemoveItem(c, item) ==
  IF IndexOf(c.paths, item) < 0
  THEN [c EXCEPT !.ret = "void"]
  ELSE RemoveAtIndex(TruncateHistory(c), IndexOf(c.paths, item), item)

\* PathContainer::startMicroStep after its call of truncateHistory
OpenStep(t) ==
  [t EXCEPT !.history = Append(@, EmptyStep), !.inHistory = -1, !.ret = "void"]

\* PathContainer::startMicroStep
StartMicroStep(c) == OpenStep(TruncateHistory(c))

\* the identities of n items allocated from next on
RECURSIVE Fresh(_, _)
Fresh(next, n) == IF n <= 0 THEN <<>> ELSE Append(Fresh(next, n - 1), next + n - 1)

\* the items the eraser can touch: live items and the fragments in groups
Present(p) ==
  {p[i].id : i \in {j \in 1..Len(p) : p[j].t = "item"}}
    \cup UNION {{p[i].ch[j] : j \in 1..Len(p[i].ch)} : i \in 1..Len(p)}

\* eraserMicroStep, case QGraphicsItemGroup: the eraser applied to every child
\* of the group; out[child] is what splitErase returns for it: -1 a list
\* holding NULL (not hit), 0 the empty list (erased), n > 0 a list of n new paths
RECURSIVE EraseChildren(_, _, _, _)
EraseChildren(todo, ch, out, next) ==
  IF todo = <<>> THEN [ch |-> ch, next |-> next]
  ELSE LET child == Head(todo)
           o == out[child]
       IN IF o = -1 THEN EraseChildren(Tail(todo), ch, out, next)
          ELSE EraseChildren(Tail(todo),
                             SelectSeq(ch, LAMBDA x : x # child) \o Fresh(next, o),
                             out, next + o)

\* eraserMicroStep, the loop over paths from (1-based) position i on
RECURSIVE EraseFrom(_, _, _, _, _)
EraseFrom(i, p, del, out, next) ==
  IF i > Len(p) THEN [paths |-> p, deleted |-> del, next |-> next]
  ELSE LET e == p[i]
       IN IF e.t = "item"
          THEN LET o == out[e.id]
               IN IF o = -1 THEN EraseFrom(i + 1, p, del, out, next)
                  ELSE IF o = 0
                  THEN EraseFrom(i + 1, [p EXCEPT ![i] = NullE],
                                 MapPut(del, i - 1, e.id), out, next)
                  ELSE EraseFrom(i + 1, [p EXCEPT ![i] = GroupE(Fresh(next, o))],
                                 MapPut(del, i - 1, e.id), out, next + o)
          ELSE IF e.t = "group"
          THEN LET r == EraseChildren(e.ch, e.ch, out, next)
               IN EraseFrom(i + 1, [p EXCEPT ![i] = GroupE(r.ch)], del, out, r.next)
          ELSE EraseFrom(i + 1, p, del, out, next)

\* the container after a loop of eraserMicroStep that takes the erased
\* slots out of the sequence rather than leaving NULL in them
ErasedCompacting(c, r) ==
  [paths |-> SelectSeq(r.paths, LAMBDA e : e.t # "null"),
   history |-> [c.history EXCEPT ![Len(c.history)].deletedItems = r.deleted],
   inHistory |-> c.inHistory, ret |-> "void", next |-> r.next]

\* the container after the loop of eraserMicroStep with result r; the value
\* also holds the next fresh identity
Erased(c, r) ==
  [paths |-> r.paths,
   history |-> [c.history EXCEPT ![Len(c.history)].deletedItems = r.deleted],
   inHistory |-> c.inHistory, ret |-> "void", next |-> r.next]

\* PathContainer::eraserMicroStep
EraserMicroStep(c, out, next) ==
  IF c.inHistory # -1
  THEN [paths |-> c.paths, history |-> c.history, inHistory |-> c.inHistory,
        ret |-> "void", next |-> next]
  ELSE Erased(c, EraseFrom(1, c.paths, c.history[Len(c.history)].deletedItems, out, next))

(***************************************************************************)
(* PathContainer: observers and actions.                                   *)
(***************************************************************************)

\* the visible items in z-order: NULL slots skipped, the fragments of a group
\* in the place of the group
RECURSIVE Flat(_)
Flat(p) ==
  IF p = <<>> THEN <<>>
  ELSE (IF Head(p).t = "item" THEN <<Head(p).id>>
        ELSE IF Head(p).t = "group" THEN Head(p).ch
        ELSE <<>>) \o Flat(Tail(p))

RunIdle == [paths |-> <<>>, inHistory |-> 0, undos |-> 0, redos |-> 0]

MicroIdle == [len0 |-> 0, paths1 |-> <<>>, history1 |-> <<>>]

SnapIdle == [seq |-> <<>>, stage |-> "none"]

\* whether the operation with result d left the container as it was
Same(d) == d.paths = paths /\ d.history = history /\ d.inHistory = inHistory

\* the container and the call observers after operation o, called with item a,
\* with result d
SetCont(d, o, a) ==
  /\ Len(d.paths) <= MaxLen
  /\ paths' = d.paths
  /\ history' = d.history
  /\ inHistory' = d.inHistory
  /\ ret' = d.ret
  /\ op' = o
  /\ arg' = a
  /\ was' = [cursor |-> inHistory, len |-> Len(history)]
  /\ depth' = depth
  /\ UNCHANGED cacheVars
  /\ LET bad == \/ o = "applyMicroStep" /\ inHistory # -1
                \/ o = "removeItem" /\ inHistory = -1
     IN /\ bad => misuse < MaxMisuse
        /\ misuse' = IF bad THEN misuse + 1 ELSE misuse

\* an operation other than undo, redo, clearPaths and startMicroStep
Step(d, o, a) ==
  /\ SetCont(d, o, a)
  /\ run' = IF Same(d) THEN run ELSE RunIdle
  /\ micro' = IF d.inHistory = -1 THEN micro
              ELSE IF o = "applyMicroStep" THEN [MicroIdle EXCEPT !.len0 = micro.len0]
              ELSE MicroIdle
  /\ snap' = SnapIdle

PathInit ==
  /\ \E k \in 0..MaxInit :
       /\ paths = [i \in 1..k |-> ItemE(i)]
       /\ nextId = k + 1
  /\ history = <<>>
  /\ inHistory \in {0, -2}
  /\ depth \in 0..MaxDepth
  /\ op = "init"
  /\ ret = "void"
  /\ arg = 0
  /\ was = [cursor |-> inHistory, len |-> 0]
  /\ run = RunIdle
  /\ micro = MicroIdle
  /\ snap = SnapIdle
  /\ misuse = 0
  /\ CacheQuiet

UndoCalled(d) ==
  /\ SetCont(d, "undo", 0)
  /\ nextId' = nextId
  /\ run' = IF d.ret = "false" THEN run
            ELSE IF run.undos = 0 \/ run.redos > 0
            THEN [paths |-> paths, inHistory |-> inHistory, undos |-> 1, redos |-> 0]
            ELSE [run EXCEPT !.undos = @ + 1]
  /\ micro' = micro
  /\ snap' = IF snap.stage = "cleared" THEN [snap EXCEPT !.stage = "undone"]
             ELSE SnapIdle

DoUndo == UndoCalled(Undo(Here))

RedoCalled(d) ==
  /\ SetCont(d, "redo", 0)
  /\ nextId' = nextId
  /\ run' = IF d.ret = "false" THEN run
            ELSE IF run.undos > 0 /\ run.redos < run.undos
            THEN [run EXCEPT !.redos = @ + 1]
            ELSE RunIdle
  /\ micro' = micro
  /\ snap' = SnapIdle

DoRedo == RedoCalled(Redo(Here))

DoAppend ==
  /\ nextId <= MaxItems
  /\ Step(AppendItem(Here, nextId), "append", nextId)
  /\ nextId' = nextId + 1

\* removeItem called with an item of the live sequence
DoRemoveItem ==
  \E i \in 1..Len(paths) :
    /\ paths[i].t = "item"
    /\ Step(RemoveItem(Here, paths[i].id), "removeItem", paths[i].id)
    /\ nextId' = nextId

\* removeItem called with an item that is in no container (argument 0)
DoRemoveForeign ==
  /\ Step(RemoveItem(Here, 0), "removeItem", 0)
  /\ nextId' = nextId

ClearCalled(d) ==
  /\ SetCont(d, "clearPaths", 0)
  /\ nextId' = nextId
  /\ run' = RunIdle
  /\ micro' = MicroIdle
  /\ snap' = [seq |-> Flat(paths), stage |-> "cleared"]

DoClearPaths == ClearCalled(ClearPaths(Here))

StartCalled(d, t) ==
  /\ SetCont(d, "startMicroStep", 0)
  /\ nextId' = nextId
  /\ run' = RunIdle
  /\ micro' = [len0 |-> Len(history), paths1 |-> t.paths, history1 |-> t.history]
  /\ snap' = SnapIdle

DoStartMicroStep == StartCalled(StartMicroStep(Here), TruncateHistory(Here))

EraserCalled(d) ==
  /\ d.next <= MaxItems + 1
  /\ Step(d, "eraserMicroStep", 0)
  /\ nextId' = d.next

\* the eraser at one point: every touched item is hit with one of the results
\* splitErase can give; outside a micro step the call touches nothing
DoEraserMicroStep ==
  \E out \in [Present(paths) -> IF inHistory = -1 THEN -1..MaxFrag ELSE {-1}] :
    EraserCalled(EraserMicroStep(Here, out, nextId))

DoApplyMicroStep ==
  /\ Step(ApplyMicroStep(Here), "applyMicroStep", 0)
  /\ nextId' = nextId

PathNext ==
  \/ DoUndo
  \/ DoRedo
  \/ DoAppend
  \/ DoRemoveItem
  \/ DoRemoveForeign
  \/ DoClearPaths
  \/ DoStartMicroStep
  \/ DoEraserMicroStep
  \/ DoApplyMicroStep

SpecPath == PathInit /\ [][PathNext]_vars

(***************************************************************************)
(* PixCache: the operations as functions of the record                     *)
(* k = [cache, priority, region, usedMemory, out], out being the value the  *)
(* operation returns (or whether it started a timer).                      *)
(***************************************************************************)

Pages == 0..(numPages - 1)

\* PngPixmap::size() of page rendered at resolution res: fixed for a page and a
\* resolution, different from page to page
PngSize(page, res) == 1 + ((page + res) % MaxSize)

K(c, p, r, u, o) == [cache |-> c, priority |-> p, region |-> r, usedMemory |-> u, out |-> o]

HereK == K(cache, priority, region, usedMemory, 0)

\* number of threads for which isRunning() holds
RunningThreads == Cardinality({i \in 1..Len(threads) : threads[i].st # "idle"})

\* conversion of the float quotient a / b to int: truncation toward zero
TruncDiv(a, b) == IF a >= 0 THEN a \div b ELSE -((-a) \div b)

\* QList::removeOne
RemoveOne(s, x) ==
  IF \E i \in 1..Len(s) : s[i] = x
  THEN LET i == MinOf({j \in 1..Len(s) : s[j] = x})
       IN SubSeq(s, 1, i - 1) \o SubSeq(s, i + 1, Len(s))
  ELSE s

\* cache.erase(it) / cache.remove(page) with usedMemory left alone
EraseKey(c, p) == [q \in (DOMAIN c) \ {p} |-> c[q]]

\* PixCache::clear
Clear(k) ==
  [k EXCEPT !.cache = EmptyCache,
            !.usedMemory = 0,
            !.region = [first |-> prefPage, second |-> prefPage]]

\* "if (region.first > region.second)" of limitCacheSize and renderNext
ValidRegion(k) ==
  IF k.region.first > k.region.second
  THEN [k EXCEPT !.region = [first |-> prefPage, second |-> prefPage]]
  ELSE k

\* (maxMemory - usedMemory) * cached_slides / usedMemory
MemorySlides(k, cached) == TruncDiv((maxMemory - k.usedMemory) * cached, k.usedMemory)

\* limitCacheSize, lines 205-219: allowed_slides before the loop
AllowedSlides(k, cached) ==
  LET byMemory == IF maxMemory > 0
                  THEN (IF k.usedMemory > 0 /\ cached > 0
                        THEN MemorySlides(k, cached)
                        ELSE Len(threads))
                  ELSE IntMaxHalf
  IN IF maxNumber > 0 /\ byMemory + Cardinality(DOMAIN k.cache) > maxNumber
     THEN maxNumber - Cardinality(DOMAIN k.cache)
     ELSE byMemory

\* limitCacheSize, lines 273-278: allowed_slides after one page was deleted
UpdatedSlides(k, cached) ==
  IF k.usedMemory > 0 /\ cached > 0
  THEN (IF MemorySlides(k, cached) + Cardinality(DOMAIN k.cache) > maxNumber
        THEN maxNumber - Cardinality(DOMAIN k.cache)
        ELSE MemorySlides(k, cached))
  ELSE maxNumber - Cardinality(DOMAIN k.cache)

\* limitCacheSize, lines 242-246: the condition of "return 0" in the loop
StopDeleting(k, first, last) ==
  \/ /\ maxNumber < 0 \/ Cardinality(DOMAIN k.cache) <= maxNumber
     /\ maxMemory < 0 \/ k.usedMemory <= maxMemory
     /\ last > prefPage
     /\ last - first <= Cardinality(DOMAIN k.cache)
     /\ 2 * last + 3 * first > 5 * prefPage
  \/ Cardinality(DOMAIN k.cache) < 2

\* the deletion of a page inside the range of the cache where there is one,
\* of the page at key p otherwise
DeleteInside(k, p) ==
  IF \E q \in DOMAIN k.cache : MinOf(DOMAIN k.cache) < q /\ q < MaxOf(DOMAIN k.cache)
  THEN [k EXCEPT !.cache = EraseKey(@, MinOf((DOMAIN @) \ {MinOf(DOMAIN @)})),
                 !.usedMemory = @ - k.cache[MinOf((DOMAIN k.cache) \ {MinOf(DOMAIN k.cache)})].size]
  ELSE [k EXCEPT !.cache = EraseKey(@, p), !.usedMemory = @ - k.cache[p].size]

\* the deletion of the current page where the cache holds it, of the page at
\* key p otherwise
DeleteCurrent(k, p) ==
  IF prefPage \in DOMAIN k.cache
  THEN [k EXCEPT !.cache = EraseKey(@, prefPage), !.usedMemory = @ - k.cache[prefPage].size]
  ELSE [k EXCEPT !.cache = EraseKey(@, p), !.usedMemory = @ - k.cache[p].size]

\* the page at key p deleted from the cache, usedMemory keeping its size
DeleteKeepingMemory(k, p) ==
  [k EXCEPT !.cache = EraseKey(@, p)]

\* the page at key p deleted from the cache and from usedMemory
Delete(k, p) ==
  [k EXCEPT !.cache = EraseKey(@, p), !.usedMemory = @ - k.cache[p].size]

\* limitCacheSize, lines 283-286
ShrinkRegion(k, first, last, allowed) ==
  [k EXCEPT !.region.first = IF first > @ + 1 THEN first - 1 ELSE @,
            !.region.second = IF last + 1 < @ THEN last + 1 ELSE @,
            !.out = allowed]

\* limitCacheSize, the do-while loop of lines 238-280; deleted says that the
\* body has just deleted a page and the loop condition is due
RECURSIVE DeleteLoop(_, _, _, _, _)
DeleteLoop(k, cached, first, last, deleted) ==
  IF deleted
  THEN (IF UpdatedSlides(k, cached) < Len(threads) /\ cached > 0
        THEN DeleteLoop(k, cached, first, last, FALSE)
        ELSE ShrinkRegion(k, first, last, UpdatedSlides(k, cached)))
  ELSE IF StopDeleting(k, first, last)
  THEN [k EXCEPT !.out = 0]
  ELSE IF last + 3 * first > 4 * prefPage
  THEN DeleteLoop(Delete(k, MaxOf(DOMAIN k.cache)), cached - 1, first,
                  MaxOf((DOMAIN k.cache) \ {MaxOf(DOMAIN k.cache)}), TRUE)
  ELSE DeleteLoop(Delete(k, MinOf(DOMAIN k.cache)), cached - 1,
                  MinOf((DOMAIN k.cache) \ {MinOf(DOMAIN k.cache)}), last, TRUE)

\* limitCacheSize from line 196 on that clears the cache instead of deleting
\* page by page
LimitCachedClearing(k, cached) ==
  IF cached <= 0 THEN [k EXCEPT !.out = IntMaxHalf]
  ELSE IF AllowedSlides(k, cached) >= Len(threads)
  THEN [k EXCEPT !.out = AllowedSlides(k, cached)]
  ELSE [Clear(k) EXCEPT !.out = 0]

\* limitCacheSize from line 196 on, with cached_slides of lines 199-201
LimitCached(k, cached) ==
  IF cached <= 0 THEN [k EXCEPT !.out = IntMaxHalf]
  ELSE IF AllowedSlides(k, cached) >= Len(threads)
  THEN [k EXCEPT !.out = AllowedSlides(k, cached)]
  ELSE DeleteLoop(k, cached, MinOf(DOMAIN k.cache), MaxOf(DOMAIN k.cache), FALSE)

\* limitCacheSize that returns 0 for a budget of zero without clearing
LimitCacheSizeKeeping(k) ==
  IF maxMemory < 0 /\ maxNumber < 0
  THEN [k EXCEPT !.out = IF Cardinality(DOMAIN k.cache) = numPages THEN 0 ELSE IntMaxHalf]
  ELSE IF maxNumber = 0 \/ maxMemory = 0
  THEN [k EXCEPT !.out = 0]
  ELSE LimitCached(ValidRegion(k), Cardinality(DOMAIN k.cache) - RunningThreads)

\* PixCache::limitCacheSize
LimitCacheSize(k) ==
  IF maxMemory < 0 /\ maxNumber < 0
  THEN [k EXCEPT !.out = IF Cardinality(DOMAIN k.cache) = numPages THEN 0 ELSE IntMaxHalf]
  ELSE IF maxNumber = 0 \/ maxMemory = 0
  THEN [Clear(k) EXCEPT !.out = 0]
  ELSE LimitCached(ValidRegion(k), Cardinality(DOMAIN k.cache) - RunningThreads)

\* renderNext, lines 306-314: the region grows to the next page not cached
RECURSIVE RegionNext(_)
RegionNext(k) ==
  IF k.region.second + 3 * k.region.first > 4 * prefPage /\ k.region.first >= 0
  THEN (IF k.region.first \notin DOMAIN k.cache
        THEN [k EXCEPT !.out = k.region.first, !.region.first = @ - 1]
        ELSE RegionNext([k EXCEPT !.region.first = @ - 1]))
  ELSE (IF k.region.second \notin DOMAIN k.cache
        THEN [k EXCEPT !.out = k.region.second, !.region.second = @ + 1]
        ELSE RegionNext([k EXCEPT !.region.second = @ + 1]))

\* renderNext that takes the head of the priority queue without looking
\* into the cache
RenderNextUnchecked(k) ==
  IF k.priority # <<>>
  THEN [k EXCEPT !.out = Head(k.priority), !.priority = Tail(@)]
  ELSE RegionNext(ValidRegion(k))

\* PixCache::renderNext
RECURSIVE RenderNext(_)
RenderNext(k) ==
  IF k.priority # <<>>
  THEN (IF Head(k.priority) \notin DOMAIN k.cache
        THEN [k EXCEPT !.out = Head(k.priority), !.priority = Tail(@)]
        ELSE RenderNext([k EXCEPT !.priority = Tail(@)]))
  ELSE RegionNext(ValidRegion(k))

\* the result of startRendering: the cache record and the signal queues
Started(k, sig) == [k |-> k, signals |-> sig]

\* startRendering, the loop of lines 329-336 from thread i on; chosen says
\* that renderNext has just put the page for thread i into k.out
RECURSIVE Dispatch(_, _, _, _, _)
Dispatch(k, sig, i, allowed, chosen) ==
  IF chosen
  THEN (IF k.out < 0 \/ k.out >= numPages
        THEN Started(k, sig)
        ELSE Dispatch(k, [sig EXCEPT ![i] = Append(@, [page |-> k.out, res |-> frame])],
                      i + 1, allowed - 1, FALSE))
  ELSE IF i > Len(threads)
  THEN Started(k, sig)
  ELSE IF allowed > 0 /\ threads[i].st = "idle"
  THEN Dispatch(RenderNext(k), sig, i, allowed, TRUE)
  ELSE Dispatch(k, sig, i + 1, allowed, FALSE)

\* startRendering after its call of limitCacheSize
StartAllowed(k) ==
  IF k.out <= 0 THEN Started(k, signals) ELSE Dispatch(k, signals, 1, k.out, FALSE)

\* PixCache::startRendering
StartRendering(k) == StartAllowed(LimitCacheSize(k))

\* "cache[page] = png" adding the size without releasing a replaced page
StoreWithoutReleasing(k, page, res, size) ==
  [k EXCEPT !.cache = [q \in (DOMAIN @) \cup {page} |->
                         IF q = page THEN [res |-> res, size |-> size] ELSE @[q]],
            !.usedMemory = @ + size]

\* "cache[page] = png" with the bookkeeping of usedMemory around it
\* (pixmap lines 114-119, requestPage lines 435-440, receiveData lines 354-359)
Store(k, page, res, size) ==
  [k EXCEPT !.cache = [q \in (DOMAIN @) \cup {page} |->
                         IF q = page THEN [res |-> res, size |-> size] ELSE @[q]],
            !.usedMemory = IF page \in DOMAIN k.cache
                           THEN @ - k.cache[page].size + size
                           ELSE @ + size]

\* a cached page taken for compatible whatever its resolution is
CompatibleAnyResolution(k, page, res) == page \in DOMAIN k.cache

\* whether the cache holds page at a resolution compatible with res
Compatible(k, page, res) == page \in DOMAIN k.cache /\ k.cache[page].res = res

\* PixCache::requestPage writing no page to the cache
RequestPageNeverStoring(k, page, res, cache_page, size) ==
  IF Compatible(k, page, res) THEN [k EXCEPT !.out = 0]
  ELSE IF page < 0 \/ page >= numPages THEN [k EXCEPT !.out = 0]
  ELSE IF size = 0 THEN [k EXCEPT !.out = 0]
  ELSE [k EXCEPT !.out = 1]

\* PixCache::requestPage without the test of the page number
RequestPageUnchecked(k, page, res, cache_page, size) ==
  IF Compatible(k, page, res) THEN [k EXCEPT !.out = 0]
  ELSE IF size = 0 THEN [k EXCEPT !.out = 0]
  ELSE IF cache_page THEN [Store(k, page, res, size) EXCEPT !.out = 1]
  ELSE [k EXCEPT !.out = 1]

\* PixCache::requestPage; size 0 stands for a failed rendering; out tells
\* whether startTimer(0) was reached
RequestPage(k, page, res, cache_page, size) ==
  IF Compatible(k, page, res) THEN [k EXCEPT !.out = 0]
  ELSE IF page < 0 \/ page >= numPages THEN [k EXCEPT !.out = 0]
  ELSE IF size = 0 THEN [k EXCEPT !.out = 0]
  ELSE IF cache_page THEN [Store(k, page, res, size) EXCEPT !.out = 1]
  ELSE [k EXCEPT !.out = 1]

\* whether PixCache::requestPage finds the page in the cache or misses
RequestBranch(k, page, res) ==
  IF Compatible(k, page, res) THEN "requestPage hit" ELSE "requestPage"

\* how often PixCache::requestPage calls renderer->renderPixmap
RequestPageRenders(k, page, res) ==
  IF Compatible(k, page, res) THEN 0
  ELSE IF page < 0 \/ page >= numPages THEN 0
  ELSE 1

\* PixCache::requestPage emitting pageReady for whatever the renderer returns
RequestPageEmitsUnchecked(k, page, res, size) ==
  IF Compatible(k, page, res) THEN 1
  ELSE IF page < 0 \/ page >= numPages THEN 0
  ELSE 1

\* how often PixCache::requestPage emits pageReady
RequestPageEmits(k, page, res, size) ==
  IF Compatible(k, page, res) THEN 1
  ELSE IF page < 0 \/ page >= numPages THEN 0
  ELSE IF size = 0 THEN 0
  ELSE 1

\* PixCache::pixmap, a resolution of 0 or less asking for getResolution(page)
Pixmap(k, page, res, size) ==
  IF Compatible(k, page, IF res <= 0 THEN frame ELSE res) THEN k
  ELSE IF page < 0 \/ page >= numPages THEN k
  ELSE IF size = 0 THEN k
  ELSE Store(k, page, IF res <= 0 THEN frame ELSE res, size)

\* requestRenderPage that appends the page whatever the queue and the cache
\* hold
RequestRenderPageAlways(k, n) ==
  [k EXCEPT !.priority = Append(@, n), !.out = 1]

\* PixCache::requestRenderPage
RequestRenderPage(k, n) ==
  IF (\A i \in 1..Len(k.priority) : k.priority[i] # n) /\ n \notin DOMAIN k.cache
  THEN [k EXCEPT !.priority = Append(@, n), !.out = 1]
  ELSE [k EXCEPT !.out = 1]

\* PixCache::receiveData storing a result whatever its resolution is
ReceiveDataStoringStale(k, data) ==
  IF data.size = 0 THEN [k EXCEPT !.out = 0]
  ELSE [Store(k, data.page, data.res, data.size) EXCEPT !.out = 1]

\* the branch PixCache::receiveData takes for data
ReceiveBranch(data) ==
  IF data.size = 0 THEN "receiveData null"
  ELSE IF data.res # frame THEN "receiveData stale"
  ELSE "receiveData"

\* PixCache::receiveData
ReceiveData(k, data) ==
  IF data.size = 0 THEN [k EXCEPT !.out = 0]
  ELSE IF data.res # frame THEN [k EXCEPT !.out = 1]
  ELSE [Store(k, data.page, data.res, data.size) EXCEPT !.out = 1]

\* the first key below f that is not cached
RECURSIVE Below(_, _)
Below(c, f) == IF f \in DOMAIN c THEN Below(c, f - 1) ELSE f

\* the first key above f that is not cached
RECURSIVE Above(_, _)
Above(c, f) == IF f \in DOMAIN c THEN Above(c, f + 1) ELSE f

\* pageNumberChanged, lines 156-170.  The loop to the left compares with
\* std::prev(cache.cbegin()), an iterator the map does not have: where that
\* iterator compares unequal to every entry (sentinel) the loop passes the
\* first key of the map, where it compares equal to cbegin() it stops there.
ExtendRegion(k, sentinel) ==
  [k EXCEPT !.region.first =
              IF sentinel \/ @ \notin DOMAIN k.cache \/ Below(k.cache, @) >= MinOf(DOMAIN k.cache)
              THEN Below(k.cache, @)
              ELSE MinOf(DOMAIN k.cache),
            !.region.second = Above(k.cache, @),
            !.out = 1]

\* PixCache::pageNumberChanged
PageNumberChanged(k, page, sentinel) ==
  IF page \notin DOMAIN k.cache
  THEN [k EXCEPT !.priority = IF @ # <<>> /\ Head(@) # page
                              THEN <<page>> \o RemoveOne(@, page)
                              ELSE @,
                 !.region = [first |-> page, second |-> page],
                 !.out = 0]
  ELSE IF k.region.first > page \/ k.region.second < page
  THEN ExtendRegion([k EXCEPT !.region = [first |-> page - 1, second |-> page + 1]], sentinel)
  ELSE ExtendRegion(k, sentinel)

\* PixCache::updateFrame, the frame of a cache with n threads
UpdateFrameTo(n, old, size) == IF old # size /\ n > 0 THEN size ELSE old

\* PixCache::updateFrame never clearing the cache
UpdateFrameKeepingCache(k, size) == k

\* PixCache::updateFrame, the cache
UpdateFrame(k, size) ==
  IF frame # size /\ Len(threads) > 0 THEN Clear(k) ELSE k

(***************************************************************************)
(* PixCache: actions.                                                      *)
(***************************************************************************)

\* a PathContainer that nothing is called on
PathQuiet ==
  /\ paths = <<>>
  /\ history = <<>>
  /\ inHistory = 0
  /\ nextId = 1
  /\ depth = 0
  /\ op = "init"
  /\ ret = "void"
  /\ arg = 0
  /\ was = [cursor |-> 0, len |-> 0]
  /\ run = RunIdle
  /\ micro = MicroIdle
  /\ snap = SnapIdle
  /\ misuse = 0

IdleThread == [st |-> "idle", page |-> 0, res |-> 0]

\* the cache after its construction and init(), with budgets and a number of
\* threads chosen by the configuration, and after the constructor of the
\* SlideView that shows it has called updateFrame(size())
\* the cache as constructed for a document of pages pages with one of the
\* numbers of threads in counts
CacheStart(pages, counts) ==
  /\ PathQuiet
  /\ cache = EmptyCache
  /\ priority = <<>>
  /\ region = [first |-> IntMax, second |-> -1]
  /\ usedMemory = 0
  /\ maxMemory \in -1..MaxMemoryBudget
  /\ maxNumber \in -1..MaxNumberBudget
  /\ prefPage = 0
  /\ numPages = pages
  /\ \E n \in counts :
       /\ frame = UpdateFrameTo(n, 0, 1)
       /\ threads = [i \in 1..n |-> IdleThread]
       /\ signals = [i \in 1..n |-> <<>>]
       /\ results = [i \in 1..n |-> <<>>]
  /\ timers = 0
  /\ cop = "init"
  /\ calls = 0
  /\ waitingForPage = IntMax

CacheInit == CacheStart(NumPages, 0..MaxThreads)

\* the members of the cache after an operation with result k that started
\* k.out timers, as operation o
SetCache(k, started, o) ==
  /\ timers + started <= MaxTimers
  /\ k.region.second <= numPages + MaxBeyond
  /\ cache' = k.cache
  /\ priority' = k.priority
  /\ region' = k.region
  /\ usedMemory' = k.usedMemory
  /\ timers' = timers + started
  /\ cop' = o
  /\ UNCHANGED <<maxMemory, maxNumber, numPages>>
  /\ UNCHANGED pathVars

\* a call from outside with result k
Called(k, started, o) ==
  /\ calls < MaxCalls
  /\ calls' = calls + 1
  /\ SetCache(k, started, o)
  /\ UNCHANGED <<threads, signals, results, waitingForPage>>

DoRequestPage ==
  \E page \in 0..numPages, res \in 1..MaxFrame, cache_page \in BOOLEAN, ok \in BOOLEAN :
    /\ Called(RequestPage(HereK, page, res, cache_page, IF ok THEN PngSize(page, res) ELSE 0),
              RequestPage(HereK, page, res, cache_page,
                          IF ok THEN PngSize(page, res) ELSE 0).out,
              RequestBranch(HereK, page, res))
    /\ UNCHANGED <<frame, prefPage>>

DoPixmap ==
  \E page \in 0..numPages, res \in 0..MaxFrame, ok \in BOOLEAN :
    /\ ok => (res > 0 \/ frame > 0)
    /\ Called(Pixmap(HereK, page, res,
                     IF ok THEN PngSize(page, IF res <= 0 THEN frame ELSE res) ELSE 0),
              0, "pixmap")
    /\ UNCHANGED <<frame, prefPage>>

DoRequestRenderPage ==
  \E n \in 0..numPages :
    /\ Called(RequestRenderPage(HereK, n), 1, "requestRenderPage")
    /\ UNCHANGED <<frame, prefPage>>

\* the presentation moves to page: preferences()->page is written and
\* pageNumberChanged(page) is called
DoPageNumberChanged ==
  \E page \in Pages, sentinel \in BOOLEAN :
    /\ Called(PageNumberChanged(HereK, page, sentinel),
              PageNumberChanged(HereK, page, sentinel).out, "pageNumberChanged")
    /\ prefPage' = page
    /\ frame' = frame

DoUpdateFrame ==
  \E size \in 1..MaxFrame :
    /\ Called(UpdateFrame(HereK, size), 0, "updateFrame")
    /\ frame' = UpdateFrameTo(Len(threads), frame, size)
    /\ prefPage' = prefPage

\* PixCache::timerEvent: one scheduling pass
DoTimerEvent ==
  /\ timers > 0
  /\ SetCache(StartRendering(HereK).k, -1, "startRendering")
  /\ signals' = StartRendering(HereK).signals
  /\ \A i \in 1..Len(threads) : Len(signals'[i]) <= MaxQueued
  /\ UNCHANGED <<threads, results, frame, prefPage, calls, waitingForPage>>

\* PixCacheThread::setNextPage, the queued signal delivered: the thread takes
\* the page and starts, which does nothing on a thread that is running
DoSetNextPage ==
  \E i \in 1..Len(threads) :
    /\ signals[i] # <<>>
    /\ signals' = [signals EXCEPT ![i] = Tail(@)]
    /\ threads' = IF threads[i].st = "idle"
                  THEN [threads EXCEPT ![i] = [st |-> "running",
                                               page |-> Head(signals[i]).page,
                                               res |-> Head(signals[i]).res]]
                  ELSE threads
    /\ cop' = cop
    /\ UNCHANGED <<cache, priority, region, usedMemory, maxMemory, maxNumber, numPages, frame,
                   prefPage, results, timers, calls, waitingForPage>>
    /\ UNCHANGED pathVars

\* PixCacheThread::run: the page is rendered and sent; size 0 is a null image
DoRun ==
  \E i \in 1..Len(threads) :
    /\ threads[i].st = "running"
    /\ Len(results[i]) < MaxQueued
    /\ \E size \in (IF threads[i].res > 0
                     THEN {0, PngSize(threads[i].page, threads[i].res)}
                     ELSE {0}) :
         results' = [results EXCEPT ![i] = Append(@, [page |-> threads[i].page,
                                                      res |-> threads[i].res,
                                                      size |-> size])]
    /\ threads' = [threads EXCEPT ![i].st = "exiting"]
    /\ cop' = cop
    /\ UNCHANGED <<cache, priority, region, usedMemory, maxMemory, maxNumber, numPages, frame,
                   prefPage, signals, timers, calls, waitingForPage>>
    /\ UNCHANGED pathVars

\* the thread has returned from run: isRunning() is false again
DoFinished ==
  \E i \in 1..Len(threads) :
    /\ threads[i].st = "exiting"
    /\ threads' = [threads EXCEPT ![i] = IdleThread]
    /\ cop' = cop
    /\ UNCHANGED <<cache, priority, region, usedMemory, maxMemory, maxNumber, numPages, frame,
                   prefPage, signals, results, timers, calls, waitingForPage>>
    /\ UNCHANGED pathVars

\* PixCache::receiveData called with the oldest result a thread has sent
DoReceiveData ==
  \E i \in 1..Len(threads) :
    /\ results[i] # <<>>
    /\ SetCache(ReceiveData(HereK, Head(results[i])),
                ReceiveData(HereK, Head(results[i])).out,
                ReceiveBranch(Head(results[i])))
    /\ results' = [results EXCEPT ![i] = Tail(@)]
    /\ UNCHANGED <<threads, signals, frame, prefPage, calls, waitingForPage>>

CacheNext ==
  \/ DoRequestPage
  \/ DoPixmap
  \/ DoRequestRenderPage
  \/ DoPageNumberChanged
  \/ DoUpdateFrame
  \/ DoTimerEvent
  \/ DoSetNextPage
  \/ DoRun
  \/ DoFinished
  \/ DoReceiveData

SpecCache == CacheInit /\ [][CacheNext]_vars

\* the same cache with one thread for a document of LongPages pages
LongInit == CacheStart(LongPages, {1})

SpecLong == LongInit /\ [][CacheNext]_vars

(***************************************************************************)
(* PixCache driven by one SlideView that shows pages: the presentation     *)
(* moves to a page, the view requests it, the cache renders around it.     *)
(***************************************************************************)

\* the resolution SlideView::pageChanged computes from the size of the view
ViewResolution == IF frame > 0 THEN frame ELSE 1

\* the presentation moves to page: preferences()->page is written,
\* pageNumberChanged(page) is called and SlideView::pageChanged notes the page
\* and emits requestPage for it
DoPageChanged ==
  \E page \in Pages, sentinel \in BOOLEAN :
    /\ calls < MaxViews
    /\ calls' = calls + 1
    /\ SetCache(PageNumberChanged(HereK, page, sentinel),
                PageNumberChanged(HereK, page, sentinel).out, "pageNumberChanged")
    /\ prefPage' = page
    /\ waitingForPage' = page
    /\ UNCHANGED <<threads, signals, results, frame>>

\* the queued requestPage of the view is delivered, the renderer works, and
\* SlideView::pageReady takes the page
DoRequestWaiting ==
  /\ waitingForPage # IntMax
  /\ SetCache(RequestPage(HereK, waitingForPage, ViewResolution, TRUE,
                          PngSize(waitingForPage, ViewResolution)),
              RequestPage(HereK, waitingForPage, ViewResolution, TRUE,
                          PngSize(waitingForPage, ViewResolution)).out,
              RequestBranch(HereK, waitingForPage, ViewResolution))
  /\ waitingForPage' = IntMax
  /\ UNCHANGED <<threads, signals, results, frame, prefPage, calls>>

ViewNext ==
  \/ DoPageChanged
  \/ DoRequestWaiting
  \/ DoTimerEvent
  \/ DoSetNextPage
  \/ DoRun
  \/ DoFinished
  \/ DoReceiveData

SpecView == CacheInit /\ [][ViewNext]_vars

\* scheduling has settled: no request, signal, result or pass is pending and
\* no thread is running
Settled ==
  /\ timers = 0
  /\ waitingForPage = IntMax
  /\ \A i \in 1..Len(threads) :
       threads[i].st = "idle" /\ signals[i] = <<>> /\ results[i] = <<>>

(***************************************************************************)
(* PathContainer: claims.                                                  *)
(***************************************************************************)

\* the container after the step
HereNext == Res(paths', history', inHistory', ret')

\* the operations that start by truncating the redo steps, called with an
\* item of the container where they take one
Mutating ==
  \/ op' \in {"append", "clearPaths", "startMicroStep"}
  \/ op' = "removeItem" /\ arg' # 0

\* C1: k successful undo calls followed by k redo calls, with no other
\* mutating operation in between, leave the live sequence and the cursor as
\* they were before the first undo.
C1_UndoRedoRoundTrip ==
  (run.undos > 0 /\ run.redos = run.undos)
    => (paths = run.paths /\ inHistory = run.inHistory)

\* C2: a mutating operation called while n > 0 steps are undone removes exactly
\* those n steps from the log and appends its own step, and the next redo
\* returns false and leaves the live sequence alone.
C2_Truncates ==
  /\ Len(history') = Len(history) - inHistory + 1
  /\ SubSeq(history', 1, Len(history') - 1) = SubSeq(history, 1, Len(history) - inHistory)
  /\ Redo(HereNext).ret = "false"
  /\ Redo(HereNext).paths = paths'

\* C2 as stated: the cursor is Forward (0) after each of the four operations.
C2_CursorForwardAfterAll ==
  [][(inHistory > 0 /\ Mutating) => (C2_Truncates /\ inHistory' = 0)]_pathVars

\* C2 as amended: the cursor is Forward (0) after append, removeItem and
\* clearPaths, and MicroStepOpen (-1) after startMicroStep.
C2_RedoDiscarded ==
  [][(inHistory > 0 /\ Mutating)
       => (C2_Truncates
           /\ inHistory' = IF op' = "startMicroStep" THEN -1 ELSE 0)]_pathVars

\* C2: an append was called with two steps undone.
C2_Witness == op = "append" /\ was.cursor = 2 /\ inHistory = 0 /\ Len(history) = 1

\* C3 as stated: after clearPaths and one undo the live sequence is the one
\* before clearPaths, for every history depth.
C3_ClearUndoAnyDepth ==
  snap.stage = "undone" => (Flat(paths) = snap.seq /\ Len(paths) = Len(snap.seq))

\* C3 as amended: after clearPaths and one undo the live sequence holds the
\* items visible before clearPaths in their order, for every history depth of
\* at least 1.
C3_ClearUndo ==
  (snap.stage = "undone" /\ depth >= 1)
    => (ret = "true" /\ Flat(paths) = snap.seq /\ Len(paths) = Len(snap.seq))

\* C3: clearPaths of two or more items was undone.
C3_Witness == snap.stage = "undone" /\ depth >= 1 /\ Len(snap.seq) >= 2 /\ Len(paths) >= 2

\* C4: the premise, a micro step in which the eraser affected no path is
\* applied
C4_EmptyMicroStep ==
  /\ inHistory = -1
  /\ op' = "applyMicroStep"
  /\ DOMAIN history[Len(history)].deletedItems = {}

\* C4: what the claim and its amendment share
C4_Discarded ==
  /\ ret' = "false"
  /\ paths' = paths
  /\ paths' = micro.paths1
  /\ history' = SubSeq(history, 1, Len(history) - 1)
  /\ inHistory' = 0

\* C4 as stated: the log is as long as before the truncation of
\* startMicroStep.
C4_LengthBeforeTruncation ==
  [][C4_EmptyMicroStep => (C4_Discarded /\ Len(history') = micro.len0)]_pathVars

\* C4 as amended: applyMicroStep returns false, the live sequence is unchanged,
\* the cursor is 0 and the log is the log startMicroStep left after its
\* truncation, without the step it opened.
C4_EmptyStepRemoved ==
  [][C4_EmptyMicroStep => (C4_Discarded /\ history' = micro.history1)]_pathVars

\* C4: an empty micro step was applied on a container that holds items and
\* had lost redo steps when the micro step was opened.
C4_Witness ==
  /\ op = "applyMicroStep"
  /\ was.cursor = -1
  /\ ret = "false"
  /\ Len(paths) >= 1
  /\ Len(history) >= 1
  /\ micro.len0 > Len(history)

\* C5: eraserMicroStep and applyMicroStep called with no micro step open leave
\* the live sequence, the log and the cursor unchanged.
C5_MisuseChangesNothing ==
  [][(inHistory # -1 /\ op' \in {"eraserMicroStep", "applyMicroStep"})
       => UNCHANGED <<paths, history, inHistory>>]_pathVars

\* C6: undo with no step behind the cursor, or with the cursor at -1 or -2,
\* and redo with the cursor at 0 or below return false and leave the live
\* sequence, the log and the cursor unchanged.
C6_NothingToReplay ==
  [][/\ (op' = "undo" /\ (inHistory < 0 \/ inHistory >= Len(history)))
          => (ret' = "false" /\ UNCHANGED <<paths, history, inHistory>>)
     /\ (op' = "redo" /\ inHistory <= 0)
          => (ret' = "false" /\ UNCHANGED <<paths, history, inHistory>>)]_pathVars

\* C6: undo was refused at the oldest step of a log that holds steps.
C6_Witness ==
  /\ op = "undo"
  /\ ret = "false"
  /\ Len(history) > 0
  /\ inHistory = Len(history)
  /\ was.cursor = inHistory

\* C7: the operation applied to the container applyMicroStep leaves
C7_Reference(c) ==
  IF op' = "append" THEN AppendItem(c, arg')
  ELSE IF op' = "removeItem" THEN RemoveItem(c, arg')
  ELSE IF op' = "clearPaths" THEN ClearPaths(c)
  ELSE StartMicroStep(c)

\* C7: append, removeItem, clearPaths and startMicroStep called while a micro
\* step is open give the container that applyMicroStep followed by the same
\* operation gives.
C7_FinalizedFirst ==
  [][(inHistory = -1 /\ Mutating)
       => LET r == C7_Reference(ApplyMicroStep(Here))
          IN paths' = r.paths /\ history' = r.history /\ inHistory' = r.inHistory]_pathVars

\* C8: the number of undo calls that succeed in a row from container c,
\* counted from n
RECURSIVE C8_Undos(_, _)
C8_Undos(c, n) ==
  IF Undo(c).ret = "false" THEN n ELSE C8_Undos(Undo(c), n + 1)

\* C8: the steps before the newest one of the log after the call are the
\* last steps of log h
C8_NewestOf(h) ==
  LET keep == Len(history') - 1
  IN /\ keep <= Len(h)
     /\ SubSeq(history', 1, keep) = SubSeq(h, Len(h) - keep + 1, Len(h))
     /\ keep < Len(h) => Len(history') = depth

C9_MemoryWithinBudget ==
  (cop = "startRendering" /\ maxMemory >= 0) => usedMemory <= maxMemory

\* C10: whenever a scheduling pass has completed under a slot budget
\* maxNumber >= 0, the cache holds at most maxNumber entries, whatever the
\* threads are doing.
C10_SlotsWithinBudget ==
  (cop = "startRendering" /\ maxNumber >= 0) => Cardinality(DOMAIN cache) <= maxNumber

\* the keys of the cache form one range without a gap
Contiguous == \A p \in Pages :
  (p > MinOf(DOMAIN cache) /\ p < MaxOf(DOMAIN cache)) => p \in DOMAIN cache

\* C11 as stated: once the view has shown page p and scheduling has settled,
\* under a positive maxNumber the cache contains p, holds at most maxNumber
\* entries and its keys form one contiguous range.
C11_WindowAroundPage ==
  (Settled /\ calls > 0 /\ maxNumber > 0)
    => /\ prefPage \in DOMAIN cache
       /\ Cardinality(DOMAIN cache) <= maxNumber
       /\ Contiguous

\* C12 as stated: requestPage(p, r, cache) called twice in a row with the same
\* arguments, for a valid page and a working renderer, calls the renderer zero
\* times in the second call, whatever cache is.
C12_SecondCallFromCache ==
  \A page \in Pages, res \in 1..MaxFrame, cache_page \in BOOLEAN :
    RequestPageRenders(RequestPage(HereK, page, res, cache_page, PngSize(page, res)),
                       page, res) = 0

\* C12 as amended: requestPage(p, r, true) called twice in a row with the same
\* arguments, for a valid page and a working renderer, is served from the
\* cache in the second call: the renderer is called zero times and neither the
\* cache nor usedMemory changes; with cache = false the second call renders
\* again unless the first one was served from the cache.
C12_SecondCallOfCachingRequest ==
  \A page \in Pages, res \in 1..MaxFrame :
    /\ RequestPageRenders(RequestPage(HereK, page, res, TRUE, PngSize(page, res)),
                          page, res) = 0
    /\ RequestPage(RequestPage(HereK, page, res, TRUE, PngSize(page, res)),
                   page, res, TRUE, PngSize(page, res)).cache
         = RequestPage(HereK, page, res, TRUE, PngSize(page, res)).cache
    /\ (RequestPageRenders(HereK, page, res) = 1)
         => RequestPageRenders(RequestPage(HereK, page, res, FALSE, PngSize(page, res)),
                               page, res) = 1

\* a requestPage that rendered and stored a page has just returned
C12_Witness ==
  /\ cop = "requestPage"
  /\ \E page \in Pages, res \in 1..MaxFrame :
       /\ Compatible(HereK, page, res)
       /\ RequestPageRenders(HereK, page, res) = 0
       /\ usedMemory >= PngSize(page, res)

\* C13: a requestPage for a valid page with a working renderer emits pageReady
\* exactly once, no requestPage emits it more than once, and a requestPage
\* for a page out of range or one whose rendering fails emits nothing and
\* leaves the cache and usedMemory as they were.
C13_PageReadyOnce ==
  /\ \A page \in Pages, res \in 1..MaxFrame :
       RequestPageEmits(HereK, page, res, PngSize(page, res)) = 1
  /\ \A page \in (-1)..numPages, res \in 1..MaxFrame, ok \in BOOLEAN :
       RequestPageEmits(HereK, page, res, IF ok THEN PngSize(page, res) ELSE 0) <= 1
  /\ \A page \in (-1)..numPages, res \in 1..MaxFrame, ok \in BOOLEAN :
       (page \notin Pages \/ (~ok /\ RequestPageRenders(HereK, page, res) = 1))
         => /\ RequestPageEmits(HereK, page, res,
                                IF ok THEN PngSize(page, res) ELSE 0) = 0
            /\ \A cache_page \in BOOLEAN :
                 RequestPage(HereK, page, res, cache_page,
                             IF ok THEN PngSize(page, res) ELSE 0)
                   = [HereK EXCEPT !.out = 0]

\* the only call so far was a requestPage that rendered its page, emitted
\* pageReady and started the timer, and the cache holds other pages by now
C13_Witness ==
  /\ calls = 1
  /\ cop = "requestPage"
  /\ timers = 1
  /\ \E page \in Pages : page \notin DOMAIN cache

\* the pages of the dispatches in flight: signals not yet delivered, threads
\* rendering, results not yet received
InFlight ==
  UNION {{signals[i][n].page : n \in 1..Len(signals[i])} : i \in 1..Len(threads)}
  \cup {threads[i].page : i \in {j \in 1..Len(threads) : threads[j].st = "running"}}
  \cup UNION {{results[i][n].page : n \in 1..Len(results[i])} : i \in 1..Len(threads)}

\* the threads a scheduling pass has just dispatched a page to
Dispatched == {i \in 1..Len(threads) : Len(signals'[i]) > Len(signals[i])}

\* C14: a scheduling pass dispatches no page that an earlier dispatch still
\* in flight is for, and the pages it dispatches are pairwise distinct.
C14_NoDoubleDispatch ==
  [][timers' < timers
       => \A i \in Dispatched :
            /\ signals'[i][Len(signals'[i])].page \notin InFlight
            /\ \A j \in Dispatched \ {i} :
                 signals'[j][Len(signals'[j])].page # signals'[i][Len(signals'[i])].page]_vars

\* the threads whose oldest result receiveData has just been called with
Received == {i \in 1..Len(threads) : Len(results'[i]) < Len(results[i])}

\* C15: receiveData called with a result that is not null and whose
\* resolution is no longer the one of the frame discards it: the cache, with
\* any entry it holds for that page, and usedMemory stay as they are.
C15_StaleResultDiscarded ==
  [][\A i \in Received :
       (Head(results[i]).size > 0 /\ Head(results[i]).res # frame)
         => (cache' = cache /\ usedMemory' = usedMemory)]_vars

\* a stale result has just been received by a cache that holds pages
C15_Witness ==
  /\ cop = "receiveData stale"
  /\ cache # EmptyCache

\* the cache has gone idle: no timer is pending and no thread has work
Idle ==
  /\ timers = 0
  /\ \A i \in 1..Len(threads) :
       threads[i].st = "idle" /\ signals[i] = <<>> /\ results[i] = <<>>

\* C16: a result delivered to receiveData, valid, stale or null, and a
\* request (requestRenderPage, pageNumberChanged, a requestPage that misses)
\* is followed by a scheduling pass before the cache goes idle: an idle cache
\* has none of them as the last of its operations.
C16_SelfSustaining ==
  Idle => cop \notin {"receiveData", "receiveData stale", "receiveData null",
                      "requestRenderPage", "pageNumberChanged", "requestPage"}

\* C17 as stated: updateFrame with a size other than the frame empties the
\* cache, sets usedMemory to 0 and the region to [currentPage, currentPage],
\* whatever the number of threads is, zero included; updateFrame with the
\* size of the frame changes nothing.
C17_FrameChangeClears ==
  \A size \in 1..MaxFrame :
    /\ size # frame
         => /\ UpdateFrame(HereK, size).cache = EmptyCache
            /\ UpdateFrame(HereK, size).usedMemory = 0
            /\ UpdateFrame(HereK, size).region = [first |-> prefPage, second |-> prefPage]
    /\ size = frame => UpdateFrame(HereK, size) = HereK

\* C17 as amended: in a cache with at least one thread, updateFrame with a
\* size other than the frame takes the size as the frame, empties the cache,
\* sets usedMemory to 0 and the region to [currentPage, currentPage] and
\* leaves the priority queue; with the size of the frame, or in a cache
\* without threads, it changes nothing, the frame included.
C17_FrameChangeClearsWithThreads ==
  \A size \in 1..MaxFrame :
    /\ (size # frame /\ Len(threads) > 0)
         => /\ UpdateFrame(HereK, size).cache = EmptyCache
            /\ UpdateFrame(HereK, size).usedMemory = 0
            /\ UpdateFrame(HereK, size).region = [first |-> prefPage, second |-> prefPage]
            /\ UpdateFrame(HereK, size).priority = priority
            /\ UpdateFrameTo(Len(threads), frame, size) = size
    /\ (size = frame \/ Len(threads) = 0)
         => /\ UpdateFrame(HereK, size) = HereK
            /\ UpdateFrameTo(Len(threads), frame, size) = frame

\* updateFrame has just been called with a new size on a cache with threads,
\* after another call, and has left the cache empty
C17_Witness ==
  /\ cop = "updateFrame"
  /\ calls = 2
  /\ Len(threads) > 0
  /\ frame # 1
  /\ cache = EmptyCache
  /\ usedMemory = 0
  /\ region = [first |-> prefPage, second |-> prefPage]

\* the threads whose oldest result waits for receiveData at the resolution
\* of the frame
Matching == {i \in 1..Len(threads) : results[i] # <<>> /\ Head(results[i]).res = frame}

\* C18: the results of two renders of distinct pages at the resolution of the
\* frame give the same cache and the same usedMemory in either order of
\* their receiveData calls, and a result for a page that has an entry
\* replaces it: the page keeps one entry and usedMemory counts only the new one.
C18_ArrivalOrder ==
  /\ \A i \in Matching : \A j \in Matching :
       Head(results[i]).page # Head(results[j]).page
         => /\ ReceiveData(ReceiveData(HereK, Head(results[i])), Head(results[j])).cache
                 = ReceiveData(ReceiveData(HereK, Head(results[j])), Head(results[i])).cache
            /\ ReceiveData(ReceiveData(HereK, Head(results[i])), Head(results[j])).usedMemory
                 = ReceiveData(ReceiveData(HereK, Head(results[j])), Head(results[i])).usedMemory
  /\ \A i \in Matching :
       (Head(results[i]).size > 0 /\ Head(results[i]).page \in DOMAIN cache)
         => /\ DOMAIN ReceiveData(HereK, Head(results[i])).cache = DOMAIN cache
            /\ ReceiveData(HereK, Head(results[i])).cache[Head(results[i]).page].size
                 = Head(results[i]).size
            /\ ReceiveData(HereK, Head(results[i])).usedMemory
                 = usedMemory - cache[Head(results[i]).page].size + Head(results[i]).size

\* receiveData has just stored the only page of the cache and the result of
\* another thread, for another page at the resolution of the frame, waits
C18_Witness ==
  /\ cop = "receiveData"
  /\ Cardinality(DOMAIN cache) = 1
  /\ \E i \in Matching :
       Head(results[i]).size > 0 /\ Head(results[i]).page \notin DOMAIN cache

\* the items that are elements of the live sequence themselves
Live == {paths[i].id : i \in {j \in 1..Len(paths) : paths[j].t = "item"}}

\* the effect of step is applied: what it created is live, what it deleted is not
Applied(step) ==
  /\ \A k \in DOMAIN step.createdItems : step.createdItems[k] \in Live
  /\ \A k \in DOMAIN step.deletedItems : step.deletedItems[k] \notin Live

\* the effect of step is not applied: what it deleted is live, what it created is not
NotApplied(step) ==
  /\ \A k \in DOMAIN step.createdItems : step.createdItems[k] \notin Live
  /\ \A k \in DOMAIN step.deletedItems : step.deletedItems[k] \in Live

\* C19: the cursor is -2, -1 or a number from 0 to the length of the log, and
\* a cursor n >= 0 is the number of steps at the end of the log whose effect
\* is not applied: the n-th step from the end is not applied, the one before
\* it is.
C19_CursorCountsUndone ==
  /\ inHistory \in {-2, -1} \/ (0 <= inHistory /\ inHistory <= Len(history))
  /\ (inHistory >= 0 /\ inHistory <= Len(history))
       => /\ inHistory >= 1 => NotApplied(StepAt(Here, inHistory))
          /\ inHistory < Len(history) => Applied(StepAt(Here, inHistory + 1))

\* C20: whenever the region is valid (region.first <= region.second) the
\* current page lies in it: region.first <= currentPage <= region.second.
C20_RegionAroundCurrentPage ==
  region.first <= region.second
    => (region.first <= prefPage /\ prefPage <= region.second)

\* the items of the visible sequence of p: NULL slots dropped, every group
\* replaced by its fragments
Flattened(p) == [i \in 1..Len(Flat(p)) |-> ItemE(Flat(p)[i])]

\* the step that the micro step which is open writes to
OpenMicroStep == history[Len(history)]

\* C21: applyMicroStep called in a micro step that affected a path returns
\* true; the live sequence is then the sequence from before the gesture with
\* the erased paths removed and the split paths replaced, in their place, by
\* their fragments, the other items as they were and in their order; a key of
\* the created map of the step is the index of that fragment in the live
\* sequence, a key of its deleted map the index of that path before the gesture.
C21_MicroStepApplied ==
  [][(op' = "applyMicroStep" /\ inHistory = -1 /\ DOMAIN OpenMicroStep.deletedItems # {})
       => /\ ret' = "true"
          /\ inHistory' = 0
          /\ Len(paths) = Len(micro.paths1)
          /\ \A i \in 1..Len(paths) :
               IF paths[i].t = "item"
               THEN paths[i] = micro.paths1[i] /\ (i - 1) \notin DOMAIN OpenMicroStep.deletedItems
               ELSE /\ (i - 1) \in DOMAIN OpenMicroStep.deletedItems
                    /\ micro.paths1[i] = ItemE(OpenMicroStep.deletedItems[i - 1])
          /\ paths' = Flattened(paths)
          /\ depth > 0
               => /\ history'[Len(history')].deletedItems = OpenMicroStep.deletedItems
                  /\ \A k \in DOMAIN history'[Len(history')].createdItems :
                       /\ k >= 0 /\ k < Len(paths')
                       /\ paths'[k + 1] = ItemE(history'[Len(history')].createdItems[k])
                  /\ {history'[Len(history')].createdItems[k] :
                        k \in DOMAIN history'[Len(history')].createdItems}
                       = UNION {{paths[i].ch[j] : j \in 1..Len(paths[i].ch)} :
                                  i \in 1..Len(paths)}]_pathVars

\* applyMicroStep has just returned true for a micro step in which one path
\* was erased and a path behind it was split
C21_Witness ==
  /\ op = "applyMicroStep"
  /\ was.cursor = -1
  /\ ret = "true"
  /\ history # <<>>
  /\ Cardinality(DOMAIN history[Len(history)].deletedItems) = 2
  /\ Cardinality(DOMAIN history[Len(history)].createdItems) = 2
  /\ MinOf(DOMAIN history[Len(history)].createdItems) = 0

\* a micro step is open and has affected a path
GestureOpen == inHistory = -1 /\ DOMAIN OpenMicroStep.deletedItems # {}

\* the last n entries of the sequence h, all of them when it has fewer
LastOf(h, n) == SubSeq(h, MaxOf({1, Len(h) - n + 1}), Len(h))

\* C22 as stated: a gesture of startMicroStep, eraserMicroStep calls and an
\* applyMicroStep that returns true adds exactly one step to the log, one
\* undo after it restores the live sequence from before startMicroStep and a
\* redo after that the erased result.
C22_GestureIsOneStep ==
  (GestureOpen /\ ApplyMicroStep(Here).ret = "true")
    => /\ Len(ApplyMicroStep(Here).history) = Len(micro.history1) + 1
       /\ Undo(ApplyMicroStep(Here)).ret = "true"
       /\ Undo(ApplyMicroStep(Here)).paths = micro.paths1
       /\ Redo(Undo(ApplyMicroStep(Here))).paths = ApplyMicroStep(Here).paths

\* C22 as amended: applyMicroStep that ends a gesture which affected a path
\* returns true and leaves the log that startMicroStep left with one step
\* added at its end, cut to its last history_length_visible_slides steps;
\* where that length is at least 1, one undo then restores the live sequence
\* from before startMicroStep and a redo after it the erased result; where it
\* is 0 the step is dropped and undo returns false.
C22_GestureIsOneStepWithinDepth ==
  GestureOpen
    => /\ ApplyMicroStep(Here).ret = "true"
       /\ SubSeq(ApplyMicroStep(Here).history, 1, Len(ApplyMicroStep(Here).history) - 1)
            = LastOf(micro.history1, depth - 1)
       /\ Len(ApplyMicroStep(Here).history) = MinOf({depth, Len(micro.history1) + 1})
       /\ depth >= 1
            => /\ Undo(ApplyMicroStep(Here)).ret = "true"
               /\ Undo(ApplyMicroStep(Here)).paths = micro.paths1
               /\ Undo(ApplyMicroStep(Here)).history = ApplyMicroStep(Here).history
               /\ Redo(Undo(ApplyMicroStep(Here))).ret = "true"
               /\ Redo(Undo(ApplyMicroStep(Here))).paths = ApplyMicroStep(Here).paths
       /\ depth = 0 => Undo(ApplyMicroStep(Here)).ret = "false"

\* the step of a gesture that erased one path and split another has just
\* been undone by one undo
C22_Witness ==
  /\ op = "undo"
  /\ ret = "true"
  /\ run.undos = 1
  /\ inHistory = 1
  /\ DOMAIN history[Len(history)].createdItems # {}
  /\ Cardinality(DOMAIN history[Len(history)].deletedItems) = 2

\* the removal loop of undo and redo checked against the step: every index,
\* taken from the highest down, lies within the live sequence and holds the
\* item the map records under it
RECURSIVE RemovalsMatch(_, _, _)
RemovalsMatch(s, m, keys) ==
  \/ keys = {}
  \/ /\ MaxOf(keys) < Len(s)
     /\ s[MaxOf(keys) + 1] = ItemE(m[MaxOf(keys)])
     /\ RemovalsMatch(RemoveAt(s, MaxOf(keys)), m, keys \ {MaxOf(keys)})

\* the insertion loop of undo and redo: every index, taken from the lowest
\* up, is at most the length the sequence has when it is inserted
RECURSIVE InsertionsFit(_, _, _)
InsertionsFit(s, m, keys) ==
  \/ keys = {}
  \/ /\ MinOf(keys) <= Len(s)
     /\ InsertionsFit(InsertAt(s, MinOf(keys), ItemE(m[MinOf(keys)])), m,
                      keys \ {MinOf(keys)})

\* a replay that removes the items of the map out and inserts those of in
ReplayFits(s, out, in) ==
  /\ RemovalsMatch(s, out, DOMAIN out)
  /\ InsertionsFit(RemoveKeysDesc(s, DOMAIN out), in, DOMAIN in)

CanUndo == inHistory >= 0 /\ Len(history) - inHistory >= 1

CanRedo == inHistory >= 1

\* C23: whenever undo or redo would replay a step, every removal index is
\* within the live sequence and holds exactly the item the step records
\* there (created map for undo, deleted map for redo), and every insertion
\* index is at most the length of the sequence at that moment
C23_ReplayIndicesValid ==
  /\ CanUndo => ReplayFits(paths, StepAt(Here, inHistory + 1).createdItems,
                           StepAt(Here, inHistory + 1).deletedItems)
  /\ CanRedo => ReplayFits(paths, StepAt(Here, inHistory).deletedItems,
                           StepAt(Here, inHistory).createdItems)

\* the items a map of a step holds
Held(m) == {m[k] : k \in DOMAIN m}

\* the items the created and deleted maps of the steps of a log refer to
Logged(h) ==
  UNION {Held(h[i].createdItems) \cup Held(h[i].deletedItems) : i \in 1..Len(h)}

\* truncateHistory, "qDeleteAll(step->createdItems)": the created items of
\* the last n steps of the log
CreatedInLast(h, n) ==
  UNION {Held(h[i].createdItems) : i \in (Len(h) - n + 1)..Len(h)}

\* clearHistory, "qDeleteAll(step->deletedItems)": the deleted items of the
\* first n steps of the log
DeletedInFirst(h, n) ==
  UNION {Held(h[i].deletedItems) : i \in 1..n}

\* the items applyMicroStep frees through clearHistory: those of the steps it
\* takes from the front of the log
FreedByApply(c) ==
  IF c.inHistory = -1 /\ DOMAIN c.history[Len(c.history)].deletedItems # {}
  THEN DeletedInFirst(c.history, Len(c.history) - Len(ApplyMicroStep(c).history))
  ELSE {}

\* the items truncateHistory frees
FreedByTruncate(c) ==
  IF c.inHistory = -1 THEN FreedByApply(c)
  ELSE IF c.inHistory > 0 THEN CreatedInLast(c.history, c.inHistory)
  ELSE {}

\* the items freed by the clearHistory call that ends append, removeItem and
\* clearPaths: t is the container after truncateHistory, step the step the
\* operation appends and d the container it leaves
FreedByLimit(t, step, d) ==
  DeletedInFirst(Append(t.history, step), Len(t.history) + 1 - Len(d.history))

\* the items operation o frees for good when it is called with item a on
\* container c
FreedBy(c, o, a) ==
  CASE o = "append" ->
         FreedByTruncate(c) \cup FreedByLimit(TruncateHistory(c), EmptyStep, AppendItem(c, a))
    [] o = "removeItem" ->
         IF IndexOf(c.paths, a) < 0 THEN {a}
         ELSE FreedByTruncate(c)
                \cup FreedByLimit(TruncateHistory(c),
                                  [createdItems |-> EmptyMap,
                                   deletedItems |-> MapPut(EmptyMap, IndexOf(c.paths, a), a)],
                                  RemoveItem(c, a))
    [] o = "clearPaths" ->
         FreedByTruncate(c)
           \cup FreedByLimit(TruncateHistory(c),
                             [createdItems |-> EmptyMap,
                              deletedItems |-> [i \in 0..(Len(TruncateHistory(c).paths) - 1) |->
                                                  TruncateHistory(c).paths[i + 1].id]],
                             ClearPaths(c))
    [] o = "startMicroStep" -> FreedByTruncate(c)
    [] o = "applyMicroStep" -> FreedByApply(c)
    [] OTHER -> {}

\* removeItem called with an item that a step of the log holds and that is
\* not in the live sequence (a text item that asks for its removal after it
\* was deleted or its creation was undone)
DoRemoveLogged ==
  \E a \in Logged(history) \ Present(paths) :
    /\ Step(RemoveItem(Here, a), "removeItem", a)
    /\ nextId' = nextId

OwnNext ==
  \/ PathNext
  \/ DoRemoveLogged

SpecOwn == PathInit /\ [][OwnNext]_vars

\* C24: an item that an operation frees for good (truncateHistory cutting
\* the undone steps, clearHistory pruning the oldest steps, the not-found
\* branch of removeItem) is, when the operation returns, neither in the live
\* sequence nor held by the created or deleted map of a step still in the log
C24_FreedItemsUnreachable ==
  [][FreedBy(Here, op', arg') \cap (Present(paths') \cup Logged(history')) = {}]_pathVars

\* no NULL slot and no group placeholder in the live sequence
Dense(p) == \A i \in 1..Len(p) : p[i].t = "item"

\* C25: outside a micro step (inHistory # -1) the live sequence is dense;
\* a call made while a micro step is open and that leaves it open (other
\* than a startMicroStep, which finalizes first) keeps the length, keeps
\* every item it does not affect at its index, and writes a placeholder
\* only where it records the item in the deleted map of the open step
C25_PlaceholdersOnlyInMicroStep ==
  [][/\ inHistory' # -1 => Dense(paths')
     /\ (inHistory = -1 /\ inHistory' = -1 /\ op' # "startMicroStep") =>
          /\ Len(paths') = Len(paths)
          /\ \A i \in 1..Len(paths) :
               \/ paths'[i] = paths[i]
               \/ /\ paths'[i].t # "item"
                  /\ paths[i].t = "item" =>
                       /\ (i - 1) \in DOMAIN history'[Len(history')].deletedItems
                       /\ history'[Len(history')].deletedItems[i - 1] = paths[i].id]_pathVars

\* an eraser call has left a group of fragments in the slot of the path it
\* split, with an untouched item behind it
C25_Witness ==
  /\ op = "eraserMicroStep"
  /\ inHistory = -1
  /\ \E i, j \in 1..Len(paths) : i < j /\ paths[i].t = "group" /\ paths[j].t = "item"

\* the loop of copy over the slots that hold an object: a non-empty item is
\* cloned (the clone is written as the item it equals), an empty text box is
\* dropped, and a group matches no case of the switch
RECURSIVE CopySlots(_, _)
CopySlots(p, empty) ==
  IF p = <<>> THEN <<>>
  ELSE (IF Head(p).t = "item" /\ Head(p).id \notin empty THEN <<Head(p)>> ELSE <<>>)
         \o CopySlots(Tail(p), empty)

\* PathContainer::copy with the live text items in empty being empty text
\* boxes. A NULL slot makes "path->type()" a call through a null pointer:
\* the call ends the program or reads a type that matches no case
Copy(c, empty) ==
  {Res(CopySlots(c.paths, empty), <<>>, -2, "copy")}
    \cup (IF \E i \in 1..Len(c.paths) : c.paths[i].t = "null"
          THEN {Res(<<>>, <<>>, -2, "crash")}
          ELSE {})

\* the clones copy has to make: the visible items in order, the fragments of
\* a split path in its place, without the empty text boxes
Clones(p, empty) == SelectSeq(Flattened(p), LAMBDA e : e.id \notin empty)

\* C26: copy, called in any reachable state with any of the live items being
\* empty text boxes, returns a detached container (inHistory = -2) with an
\* empty log that holds the clones of the live items in order; the first
\* append to the copy attaches it (inHistory = 0) and, where the history
\* length keeps a step at all, can be undone
C26_CopyDetached ==
  \A empty \in SUBSET Present(paths) :
    \A r \in Copy(Here, empty) :
      /\ r.ret = "copy"
      /\ r.inHistory = -2
      /\ r.history = <<>>
      /\ r.paths = Clones(paths, empty)
      /\ AppendItem(r, nextId).inHistory = 0
      /\ AppendItem(r, nextId).paths = Append(r.paths, ItemE(nextId))
      /\ depth >= 1 => /\ Undo(AppendItem(r, nextId)).ret = "true"
                       /\ Undo(AppendItem(r, nextId)).paths = r.paths

\* how often page n stands in the queue q
Occurrences(q, n) == Cardinality({i \in 1..Len(q) : q[i] = n})

\* C27: after pageNumberChanged(page) for a page that is not in the cache the
\* region is [page, page] and page stands first in the priority queue, and
\* only once in it, whatever the queue held before
C27_UncachedPageFirst ==
  [][(cop' = "pageNumberChanged" /\ prefPage' \notin DOMAIN cache) =>
       /\ region' = [first |-> prefPage', second |-> prefPage']
       /\ priority' # <<>>
       /\ Head(priority') = prefPage'
       /\ Occurrences(priority', prefPage') = 1]_vars

\* C28: after pageNumberChanged(page) for a page that is in the cache the
\* region holds page and is the largest block of cached pages around it:
\* every page strictly between region.first and region.second is cached and
\* neither end can move further, being itself not cached
C28_RegionMaximalBlock ==
  [][(cop' = "pageNumberChanged" /\ prefPage' \in DOMAIN cache) =>
       /\ region'.first <= prefPage'
       /\ prefPage' <= region'.second
       /\ \A q \in (region'.first + 1)..(region'.second - 1) : q \in DOMAIN cache'
       /\ region'.first \notin DOMAIN cache'
       /\ region'.second \notin DOMAIN cache']_vars

\* the positions of the priority queue q that hold a page not in cache c
Uncached(q, c) == {i \in 1..Len(q) : q[i] \notin DOMAIN c}

\* C29: renderNext never returns a page that is in the cache. While the
\* priority queue holds a page that is not cached it returns the first such
\* page and takes it and everything before it from the queue, leaving the
\* region alone; otherwise it empties the queue and returns, from the valid
\* region, the first page not cached at or below region.first or at or
\* above region.second, moving that end of the region one past it
C29_RenderNextUncached ==
  /\ RenderNext(HereK).out \notin DOMAIN cache
  /\ RenderNext(HereK).cache = cache
  /\ Uncached(priority, cache) # {} =>
       /\ RenderNext(HereK).out = priority[MinOf(Uncached(priority, cache))]
       /\ RenderNext(HereK).priority =
            SubSeq(priority, MinOf(Uncached(priority, cache)) + 1, Len(priority))
       /\ RenderNext(HereK).region = region
  /\ Uncached(priority, cache) = {} =>
       /\ RenderNext(HereK).priority = <<>>
       /\ \/ /\ RenderNext(HereK).out = Below(cache, ValidRegion(HereK).region.first)
             /\ RenderNext(HereK).region.first = RenderNext(HereK).out - 1
             /\ RenderNext(HereK).region.second = ValidRegion(HereK).region.second
          \/ /\ RenderNext(HereK).out = Above(cache, ValidRegion(HereK).region.second)
             /\ RenderNext(HereK).region.second = RenderNext(HereK).out + 1
             /\ RenderNext(HereK).region.first <= ValidRegion(HereK).region.first

\* renderNext skips a cached page at the head of the priority queue and
\* finds a page of the document through the region
C29_Witness ==
  /\ priority # <<>>
  /\ Head(priority) \in DOMAIN cache
  /\ RenderNext(HereK).priority = <<>>
  /\ RenderNext(HereK).out \in Pages
  /\ RenderNext(HereK).region # region

\* no page stands twice in the queue q
Once(q) == \A i, j \in 1..Len(q) : q[i] = q[j] => i = j

\* C30: requestRenderPage(n) appends n to the end of the priority queue if
\* and only if n is neither in the cache nor in the queue, and leaves the
\* cache, usedMemory and the region as they are; no reachable priority queue
\* holds a page twice, nor does the queue after two more requests or after
\* a request followed by a pageNumberChanged or a renderNext
C30_QueuedOnce ==
  /\ Once(priority)
  /\ \A n \in 0..numPages, m \in 0..numPages :
       Once(RequestRenderPage(RequestRenderPage(HereK, n), m).priority)
  /\ \A n \in 0..numPages, page \in Pages :
       /\ Once(PageNumberChanged(RequestRenderPage(HereK, n), page, TRUE).priority)
       /\ Once(RenderNext(RequestRenderPage(HereK, n)).priority)
  /\ \A n \in 0..numPages :
       /\ RequestRenderPage(HereK, n).priority =
            IF n \notin DOMAIN cache /\ Occurrences(priority, n) = 0
            THEN Append(priority, n)
            ELSE priority
       /\ RequestRenderPage(HereK, n).cache = cache
       /\ RequestRenderPage(HereK, n).usedMemory = usedMemory
       /\ RequestRenderPage(HereK, n).region = region

\* a second page has been appended behind the one that was queued
C30_Witness ==
  /\ cop = "requestRenderPage"
  /\ Len(priority) = 2
  /\ \E n \in 0..numPages : RequestRenderPage(HereK, n).priority = priority

\* the threads for which isRunning() is false
IdleThreads == {i \in 1..Len(threads) : threads[i].st = "idle"}

\* the number of pages a scheduling pass started now sends to thread i
SentTo(i) == Len(StartRendering(HereK).signals[i]) - Len(signals[i])

\* the number of pages a scheduling pass started now sends out
RECURSIVE SentUpTo(_)
SentUpTo(n) == IF n = 0 THEN 0 ELSE SentTo(n) + SentUpTo(n - 1)

\* the render jobs thread i holds after a scheduling pass started now: the
\* pages sent to it and not yet taken, and the page it is rendering
JobsAfterPass(i) ==
  Len(StartRendering(HereK).signals[i]) + (IF threads[i].st = "running" THEN 1 ELSE 0)

\* C31: a scheduling pass sends out nothing when limitCacheSize returns 0 or
\* less, and otherwise at most min(allowed, idle threads) pages, at most one
\* to a thread and only to idle threads; no thread holds two render jobs
\* after the pass
C31_OneJobPerWorker ==
  timers > 0 =>
    /\ LimitCacheSize(HereK).out <= 0 => StartRendering(HereK).signals = signals
    /\ LimitCacheSize(HereK).out > 0 =>
         SentUpTo(Len(threads)) <= MinOf({LimitCacheSize(HereK).out, Cardinality(IdleThreads)})
    /\ \A i \in 1..Len(threads) :
         /\ SentTo(i) \in {0, 1}
         /\ SentTo(i) = 1 => i \in IdleThreads
         /\ SentTo(i) = 1 =>
              StartRendering(HereK).signals[i][Len(signals[i]) + 1].page \in Pages
         /\ JobsAfterPass(i) <= 1

\* C32: with maxNumber = 0 or maxMemory = 0 a scheduling pass leaves the
\* cache empty and usedMemory = 0 and sends no page to a thread, whatever
\* the cache holds when the pass starts
C32_ZeroBudgetClears ==
  (maxNumber = 0 \/ maxMemory = 0) =>
    /\ StartRendering(HereK).k.cache = EmptyCache
    /\ StartRendering(HereK).k.usedMemory = 0
    /\ StartRendering(HereK).signals = signals

\* a pass is due on a cache with a zero budget into which requestPage has
\* just stored a page
C32_Witness ==
  /\ maxNumber = 0 \/ maxMemory = 0
  /\ cop = "requestPage"
  /\ timers > 0
  /\ cache # EmptyCache
  /\ usedMemory > 0
  /\ IdleThreads # {}

\* the keys left when n times the largest key is taken from the set S if
\* last + 3 * first > 4 * currentPage, and the smallest key otherwise
RECURSIVE EdgeEvicted(_, _)
EdgeEvicted(S, n) ==
  IF n = 0 THEN S
  ELSE IF MaxOf(S) + 3 * MinOf(S) > 4 * prefPage
  THEN EdgeEvicted(S \ {MaxOf(S)}, n - 1)
  ELSE EdgeEvicted(S \ {MinOf(S)}, n - 1)

\* the set S of keys is one range without a gap
Gapless(S) == \A p \in S, q \in S : \A m \in p..q : m \in S

\* the number of pages limitCacheSize evicts when it is called now
Evicted == Cardinality(DOMAIN cache) - Cardinality(DOMAIN LimitCacheSize(HereK).cache)

\* C33: with budgets other than 0, limitCacheSize evicts one edge of the
\* cache after the other, the largest key when last + 3 * first >
\* 4 * currentPage and the smallest otherwise, never a key between the two;
\* a cache without a gap has no gap afterwards
C33_EvictsEdges ==
  (maxNumber # 0 /\ maxMemory # 0) =>
    /\ DOMAIN LimitCacheSize(HereK).cache \subseteq DOMAIN cache
    /\ DOMAIN LimitCacheSize(HereK).cache = EdgeEvicted(DOMAIN cache, Evicted)
    /\ \A p \in (DOMAIN cache) \ DOMAIN LimitCacheSize(HereK).cache :
         \/ p < MinOf(DOMAIN LimitCacheSize(HereK).cache)
         \/ p > MaxOf(DOMAIN LimitCacheSize(HereK).cache)
    /\ Gapless(DOMAIN cache) => Gapless(DOMAIN LimitCacheSize(HereK).cache)

\* a pass is due that evicts from a cache of three pages
C33_Witness ==
  /\ maxNumber # 0 /\ maxMemory # 0
  /\ timers > 0
  /\ Cardinality(DOMAIN cache) >= 3
  /\ Evicted >= 1

\* C34 as stated: with budgets other than 0, limitCacheSize leaves at least
\* 2 entries in a cache that holds at least 2, and leaves a cache with fewer
\* than 2 entries untouched
C34_KeepsTwoEntries ==
  (maxNumber # 0 /\ maxMemory # 0) =>
    /\ Cardinality(DOMAIN cache) >= 2 =>
         Cardinality(DOMAIN LimitCacheSize(HereK).cache) >= 2
    /\ Cardinality(DOMAIN cache) < 2 => LimitCacheSize(HereK).cache = cache

\* C34: with budgets other than 0, limitCacheSize deletes only from a cache
\* of at least 2 entries, so that it never deletes the last entry, and
\* leaves a cache with fewer than 2 entries untouched
C34_KeepsLastEntry ==
  (maxNumber # 0 /\ maxMemory # 0) =>
    /\ Cardinality(DOMAIN cache) >= 1 =>
         Cardinality(DOMAIN LimitCacheSize(HereK).cache) >= 1
    /\ Cardinality(DOMAIN cache) < 2 =>
         /\ LimitCacheSize(HereK).cache = cache
         /\ LimitCacheSize(HereK).usedMemory = usedMemory

\* a pass is due that takes a cache of two pages down to one
C34_Witness ==
  /\ maxNumber # 0 /\ maxMemory # 0
  /\ timers > 0
  /\ Cardinality(DOMAIN cache) = 2
  /\ Cardinality(DOMAIN LimitCacheSize(HereK).cache) = 1

\* C35: with budgets other than 0, a current page that is in the cache when
\* a scheduling pass starts is in the cache, unchanged, when limitCacheSize
\* returns and when the pass ends
C35_CurrentPageKept ==
  (maxNumber # 0 /\ maxMemory # 0 /\ prefPage \in DOMAIN cache) =>
    /\ prefPage \in DOMAIN LimitCacheSize(HereK).cache
    /\ LimitCacheSize(HereK).cache[prefPage] = cache[prefPage]
    /\ prefPage \in DOMAIN StartRendering(HereK).k.cache

\* a pass is due that evicts a page from a cache that holds the current page
C35_Witness ==
  /\ maxNumber # 0 /\ maxMemory # 0
  /\ timers > 0
  /\ prefPage \in DOMAIN cache
  /\ prefPage > 0
  /\ Evicted >= 1

(***************************************************************************)
(* PixCache with positive budgets and a renderer that never fails, the     *)
(* event loop delivering every timer event and queued signal and every     *)
(* thread running to its end.                                              *)
(***************************************************************************)

SettleInit == LongInit /\ maxMemory > 0 /\ maxNumber > 0

\* PixCacheThread::run with a renderer that returns an image
DoRunOk ==
  /\ DoRun
  /\ \A i \in 1..Len(threads) : \A j \in 1..Len(results'[i]) : results'[i][j].size > 0

SettleNext ==
  \/ DoRequestPage
  \/ DoPixmap
  \/ DoRequestRenderPage
  \/ DoPageNumberChanged
  \/ DoUpdateFrame
  \/ DoTimerEvent
  \/ DoSetNextPage
  \/ DoRunOk
  \/ DoFinished
  \/ DoReceiveData

SpecSettle ==
  /\ SettleInit
  /\ [][SettleNext]_vars
  /\ WF_vars(DoTimerEvent)
  /\ WF_vars(DoSetNextPage)
  /\ WF_vars(DoRunOk)
  /\ WF_vars(DoFinished)
  /\ WF_vars(DoReceiveData)

\* a scheduling pass that evicts a page or sends one to a thread
PassActs ==
  /\ timers' = timers - 1
  /\ cache' # cache \/ signals' # signals

\* C36: with positive budgets, a renderer that never fails and the calls
\* from outside at an end, only finitely many scheduling passes evict or
\* dispatch a page
C36_SchedulingSettles == <>[][~PassActs]_vars

(***************************************************************************)
(* PixCache without limits behind a SlideView, with at least one thread    *)
(* and a renderer that never fails.                                        *)
(***************************************************************************)

FillInit == CacheStart(NumPages, 1..MaxThreads) /\ maxMemory < 0 /\ maxNumber < 0

FillNext ==
  \/ DoPageChanged
  \/ DoRequestWaiting
  \/ DoTimerEvent
  \/ DoSetNextPage
  \/ DoRunOk
  \/ DoFinished
  \/ DoReceiveData

SpecFill ==
  /\ FillInit
  /\ [][FillNext]_vars
  /\ WF_vars(DoRequestWaiting)
  /\ WF_vars(DoTimerEvent)
  /\ WF_vars(DoSetNextPage)
  /\ WF_vars(DoRunOk)
  /\ WF_vars(DoFinished)
  /\ WF_vars(DoReceiveData)

\* the view has requested the current page and this was its last request
LastRequested ==
  /\ calls = MaxViews
  /\ waitingForPage = IntMax
  /\ cop \in {"requestPage", "requestPage hit"}

RECURSIVE SizeOf(_, _)
SizeOf(c, S) ==
  IF S = {} THEN 0
  ELSE c[MinOf(S)].size + SizeOf(c, S \ {MinOf(S)})

\* C38: usedMemory is the sum of the sizes of the pages in the cache, so it
\* is never negative and is 0 where the cache is empty
C38_UsedMemoryIsSum ==
  /\ usedMemory = SizeOf(cache, DOMAIN cache)
  /\ usedMemory >= 0
  /\ cache = EmptyCache => usedMemory = 0

\* after a scheduling pass under a memory limit the cache holds a page at
\* resolution 1 that requestPage at resolution 2 replaces by one of another
\* size
C38_Witness ==
  /\ cop = "startRendering"
  /\ maxMemory > 0
  /\ calls < MaxCalls
  /\ \E p \in DOMAIN cache :
       /\ cache[p].res = 1
       /\ PngSize(p, 2) # cache[p].size
       /\ RequestPage(HereK, p, 2, TRUE, PngSize(p, 2)).usedMemory
            = usedMemory - cache[p].size + PngSize(p, 2)

(***************************************************************************)
(* PixCache called with page numbers inside and outside the document.      *)
(***************************************************************************)

\* how far outside the document the page arguments go
MaxOutside == 1

AnyPages == (0 - MaxOutside)..(numPages - 1 + MaxOutside)

OutsidePages == AnyPages \ Pages

DoRequestAnyPage ==
  \E page \in AnyPages, res \in 1..MaxFrame, cache_page \in BOOLEAN, ok \in BOOLEAN :
    /\ Called(RequestPage(HereK, page, res, cache_page, IF ok THEN PngSize(page, res) ELSE 0),
              RequestPage(HereK, page, res, cache_page,
                          IF ok THEN PngSize(page, res) ELSE 0).out,
              RequestBranch(HereK, page, res))
    /\ UNCHANGED <<frame, prefPage>>

DoPixmapOfAnyPage ==
  \E page \in AnyPages, res \in 0..MaxFrame, ok \in BOOLEAN :
    /\ ok => (res > 0 \/ frame > 0)
    /\ Called(Pixmap(HereK, page, res,
                     IF ok THEN PngSize(page, IF res <= 0 THEN frame ELSE res) ELSE 0),
              0, "pixmap")
    /\ UNCHANGED <<frame, prefPage>>

DoRequestRenderAnyPage ==
  \E n \in AnyPages :
    /\ Called(RequestRenderPage(HereK, n), 1, "requestRenderPage")
    /\ UNCHANGED <<frame, prefPage>>

\* pageNumberChanged(page) with preferences()->page written before it or
\* left as it was
DoAnyPageNumberChanged ==
  \E page \in AnyPages, sentinel \in BOOLEAN, moved \in BOOLEAN :
    /\ Called(PageNumberChanged(HereK, page, sentinel),
              PageNumberChanged(HereK, page, sentinel).out, "pageNumberChanged")
    /\ prefPage' = IF moved THEN page ELSE prefPage
    /\ frame' = frame

RangeInit == CacheStart(NumPages, {1})

RangeNext ==
  \/ DoRequestAnyPage
  \/ DoPixmapOfAnyPage
  \/ DoRequestRenderAnyPage
  \/ DoAnyPageNumberChanged
  \/ DoTimerEvent
  \/ DoSetNextPage
  \/ DoRun
  \/ DoFinished
  \/ DoReceiveData

SpecRange == RangeInit /\ [][RangeNext]_vars

\* C39: no page outside 0..numPages-1 is sent to a thread, rendered by a
\* thread or by the cache itself, or a key of the cache, whatever pages
\* requestPage, pixmap, requestRenderPage and pageNumberChanged are called
\* with, and a call with such a page leaves the cache and usedMemory as they
\* are
C39_OnlyPagesOfTheDocument ==
  /\ DOMAIN cache \subseteq Pages
  /\ \A i \in 1..Len(threads) :
       /\ \A j \in 1..Len(signals[i]) : signals[i][j].page \in Pages
       /\ \A j \in 1..Len(results[i]) : results[i][j].page \in Pages
       /\ threads[i].page \in Pages
       /\ \A j \in 1..Len(StartRendering(HereK).signals[i]) :
            StartRendering(HereK).signals[i][j].page \in Pages
  /\ \A page \in OutsidePages, res \in 0..MaxFrame, cache_page \in BOOLEAN :
       /\ RequestPageRenders(HereK, page, res) = 0
       /\ RequestPage(HereK, page, res, cache_page, PngSize(page, res)).cache = cache
       /\ RequestPage(HereK, page, res, cache_page, PngSize(page, res)).usedMemory = usedMemory
       /\ Pixmap(HereK, page, res, PngSize(page, IF res <= 0 THEN frame ELSE res)) = HereK
       /\ RequestRenderPage(HereK, page).cache = cache
       /\ RequestRenderPage(HereK, page).usedMemory = usedMemory
       /\ \A sentinel \in BOOLEAN :
            /\ PageNumberChanged(HereK, page, sentinel).cache = cache
            /\ PageNumberChanged(HereK, page, sentinel).usedMemory = usedMemory

\* a page outside the document is at the head of the priority queue when a
\* pass with an idle thread and room in the cache is due, and the pass sends
\* nothing
C39_Witness ==
  /\ timers > 0
  /\ priority # <<>>
  /\ Head(priority) \in OutsidePages
  /\ IdleThreads # {}
  /\ LimitCacheSize(HereK).out > 0
  /\ cache # EmptyCache
  /\ StartRendering(HereK).signals = signals

\* nothing is delivered
NoImage == [from |-> "none", res |-> 0]

\* what PixCache::requestPage emits with pageReady: the image of the cache
\* (lines 402-405) or the one of the renderer (line 429), at its resolution
RequestPageDelivers(k, page, res, size) ==
  IF Compatible(k, page, res) THEN [from |-> "cache", res |-> k.cache[page].res]
  ELSE IF page < 0 \/ page >= numPages THEN NoImage
  ELSE IF size = 0 THEN NoImage
  ELSE [from |-> "renderer", res |-> res]

\* the resolution PixCache::pixmap works with, line 83
PixmapResolution(res) == IF res <= 0 THEN frame ELSE res

\* what PixCache::pixmap returns: the image of the cache (lines 87-89), a null
\* pixmap, or the one of the renderer (line 122)
PixmapDelivers(k, page, res, size) ==
  IF Compatible(k, page, PixmapResolution(res))
  THEN [from |-> "cache", res |-> k.cache[page].res]
  ELSE IF page < 0 \/ page >= numPages THEN NoImage
  ELSE IF size = 0 THEN NoImage
  ELSE [from |-> "renderer", res |-> PixmapResolution(res)]

\* requestPage for a cached page at resolution r with a renderer that returns
\* an image of size size (0: none): the cached image only at r, otherwise
\* the rendered one, stored in place of the cached one where asked for
RequestPageAtResolution(page, r, size) ==
  /\ RequestPageDelivers(HereK, page, r, size).from = "cache" <=> cache[page].res = r
  /\ RequestPageDelivers(HereK, page, r, size).from = "cache" =>
       \A cache_page \in BOOLEAN :
         /\ RequestPage(HereK, page, r, cache_page, size).cache = cache
         /\ RequestPage(HereK, page, r, cache_page, size).usedMemory = usedMemory
  /\ (cache[page].res # r /\ size > 0) =>
       /\ RequestPageDelivers(HereK, page, r, size) = [from |-> "renderer", res |-> r]
       /\ RequestPage(HereK, page, r, TRUE, size).cache
            = [cache EXCEPT ![page] = [res |-> r, size |-> size]]
       /\ RequestPage(HereK, page, r, TRUE, size).usedMemory
            = usedMemory - cache[page].size + size
       /\ RequestPage(HereK, page, r, FALSE, size).cache = cache
       /\ RequestPage(HereK, page, r, FALSE, size).usedMemory = usedMemory

\* pixmap for a cached page, asked for resolution r and working with
\* resolution eff
PixmapAtResolution(page, r, eff, size) ==
  /\ PixmapDelivers(HereK, page, r, size).from = "cache" <=> cache[page].res = eff
  /\ PixmapDelivers(HereK, page, r, size).from = "cache" =>
       Pixmap(HereK, page, r, size) = HereK
  /\ (cache[page].res # eff /\ size > 0) =>
       /\ PixmapDelivers(HereK, page, r, size) = [from |-> "renderer", res |-> eff]
       /\ Pixmap(HereK, page, r, size).cache
            = [cache EXCEPT ![page] = [res |-> eff, size |-> size]]
       /\ Pixmap(HereK, page, r, size).usedMemory = usedMemory - cache[page].size + size

\* C40 as stated: requestPage(page, r, cache) and pixmap(page, r) deliver the
\* cached image only where its resolution is r; at any other resolution they
\* deliver a fresh rendering at r, which replaces the cached image with
\* usedMemory adjusted where it is stored and leaves it in place otherwise
C40_CachedOnlyAtResolution ==
  \A page \in DOMAIN cache :
    /\ \A r \in 1..MaxFrame : RequestPageAtResolution(page, r, PngSize(page, r))
    /\ \A r \in 0..MaxFrame :
         PixmapAtResolution(page, r, r, PngSize(page, PixmapResolution(r)))

\* C40 amended: the resolution pixmap compares and renders with is
\* getResolution(page) where r <= 0, and the fresh rendering is delivered
\* and stored where the renderer returns an image; where it returns none,
\* nothing is delivered and the cached image stays
C40_CachedOnlyAtEffectiveResolution ==
  \A page \in DOMAIN cache :
    /\ \A r \in 1..MaxFrame :
         /\ RequestPageAtResolution(page, r, PngSize(page, r))
         /\ RequestPageAtResolution(page, r, 0)
         /\ cache[page].res # r =>
              /\ RequestPageDelivers(HereK, page, r, 0) = NoImage
              /\ \A cache_page \in BOOLEAN :
                   RequestPage(HereK, page, r, cache_page, 0).cache = cache
    /\ \A r \in 0..MaxFrame :
         /\ PixmapAtResolution(page, r, PixmapResolution(r),
                               PngSize(page, PixmapResolution(r)))
         /\ PixmapAtResolution(page, r, PixmapResolution(r), 0)
         /\ cache[page].res # PixmapResolution(r) =>
              /\ PixmapDelivers(HereK, page, r, 0) = NoImage
              /\ Pixmap(HereK, page, r, 0) = HereK

\* one more call can be made on a cache that holds a page at the resolution
\* of the frame, which pixmap(page, 0) takes from the cache, and a page at
\* another resolution, which pixmap(page, 0) renders and replaces
C40_Witness ==
  /\ calls < MaxCalls
  /\ frame > 0
  /\ \E p \in DOMAIN cache, q \in DOMAIN cache :
       /\ cache[p].res = frame
       /\ PixmapDelivers(HereK, p, 0, PngSize(p, frame)) = [from |-> "cache", res |-> frame]
       /\ cache[q].res # frame
       /\ PngSize(q, frame) # cache[q].size
       /\ Pixmap(HereK, q, 0, PngSize(q, frame)).cache[q].res = frame
       /\ Pixmap(HereK, q, 0, PngSize(q, frame)).usedMemory # usedMemory

====
